---- MODULE Spec2Model ----
(***************************************************************************)
(* Workout diary: ownership-scoped read and write layer over the           *)
(* relational store (workouts -> workout_exercises -> sets), the server    *)
(* actions in front of it, and the calendar-date conversions they use.     *)
(*                                                                         *)
(* Time is counted in hours since 1970-01-01T00:00Z.  A JavaScript Date is *)
(* a record [valid, t]; the host timezone is a fixed offset tz in hours    *)
(* (local time = UTC + tz).  A text is represented by its length, a date   *)
(* text by its parsed shape.                                               *)
(***************************************************************************)
EXTENDS Integers, Sequences, FiniteSets, TLC

VARIABLES db, tz, last, reader, form

vars == <<db, tz, last, reader, form>>

\* ------------------------------------------------------------------------
\* Bounds of the model
\* ------------------------------------------------------------------------
\* workouts ever inserted, and rows ever inserted into the three tables
MaxWorkouts == 2

MaxRows == 5

Users == {"u1", "u2"}

NoUser == "null"

HostOffsets == {-5, 0, 9}

AllOffsets == -12 .. 14

\* ------------------------------------------------------------------------
\* JavaScript values
\* ------------------------------------------------------------------------
Undefined == [k |-> "undefined"]

Null == [k |-> "null"]

Str(n) == [k |-> "string", len |-> n]

\* a number n, or n + 1/2 when half is TRUE
Num(n) == [k |-> "number", n |-> n, half |-> FALSE]

NumHalf(n) == [k |-> "number", n |-> n, half |-> TRUE]

\* ------------------------------------------------------------------------
\* Proleptic Gregorian calendar, days counted from 1970-01-01
\* ------------------------------------------------------------------------
\* each step hands its intermediate values on as arguments
DayNumber(era, yoe, doy) ==
  era * 146097 + (yoe * 365 + yoe \div 4 - yoe \div 100 + doy) - 719468

DaysFromShifted(yy, mp, d) ==
  DayNumber(yy \div 400, yy % 400, (153 * mp + 2) \div 5 + d - 1)

\* the year and the month are counted from 1 March
DaysFromCivil(y, m, d) ==
  DaysFromShifted(IF m <= 2 THEN y - 1 ELSE y,
                  IF m > 2 THEN m - 3 ELSE m + 9, d)

CivilOf(y0, m, d) ==
  [y |-> y0 + (IF m <= 2 THEN 1 ELSE 0), m |-> m, d |-> d]

CivilFromMp(y0, doy, mp) ==
  CivilOf(y0, IF mp < 10 THEN mp + 3 ELSE mp - 9,
          doy - (153 * mp + 2) \div 5 + 1)

CivilFromDoy(y0, doy) == CivilFromMp(y0, doy, (5 * doy + 2) \div 153)

CivilFromYoe(era, doe, yoe) ==
  CivilFromDoy(yoe + era * 400,
               doe - (365 * yoe + yoe \div 4 - yoe \div 100))

CivilFromDoe(era, doe) ==
  CivilFromYoe(era, doe,
               (doe - doe \div 1460 + doe \div 36524 - doe \div 146096)
                 \div 365)

CivilFromShifted(z) == CivilFromDoe(z \div 146097, z % 146097)

CivilFromDays(n) == CivilFromShifted(n + 719468)

IsLeap(y) == (y % 4 = 0 /\ y % 100 # 0) \/ y % 400 = 0

DaysInMonth(y, m) ==
  IF m = 2 THEN (IF IsLeap(y) THEN 29 ELSE 28)
  ELSE IF m \in {4, 6, 9, 11} THEN 30 ELSE 31

\* ------------------------------------------------------------------------
\* JavaScript Date
\* ------------------------------------------------------------------------
InvalidDate == [valid |-> FALSE, t |-> 0]

DateAt(t) == [valid |-> TRUE, t |-> t]

\* calendar fields of an instant as seen at UTC offset off
FieldsAt(t, off) == CivilFromDays((t + off) \div 24)

\* Date.prototype.getFullYear / getMonth (zero-based) / getDate, host zone off
getFullYear(date, off) == FieldsAt(date.t, off).y

getMonth(date, off) == FieldsAt(date.t, off).m - 1

getDate(date, off) == FieldsAt(date.t, off).d

\* new Date(year, monthIndex, day): local midnight; a month index or a day
\* outside its range carries over, and years 0..99 mean 1900..1999
NewDateLocal(year, monthIndex, day, off) ==
  LET y0 == IF year >= 0 /\ year <= 99 THEN 1900 + year ELSE year
      y  == y0 + (monthIndex \div 12)
      m  == (monthIndex % 12) + 1
  IN  DateAt((DaysFromCivil(y, m, 1) + day - 1) * 24 - off)

\* number of decimal digits of a year 0..9999 printed without padding
Digits(n) == IF n < 10 THEN 1 ELSE IF n < 100 THEN 2 ELSE IF n < 1000 THEN 3 ELSE 4

\* a text <year>-MM-DD whose year is written with yw digits, padded with
\* zeros on the left when it has fewer
DateText(yw, y, m, d) == [k |-> "ymd", yw |-> yw, y |-> y, m |-> m, d |-> d]

\* the text YYYY-MM-DD of a calendar date
Ymd(y, m, d) == DateText(4, y, m, d)

\* the text of an instant with an explicit UTC offset,
\* YYYY-MM-DDTHH:00:00+hh:00, naming local fields and the offset they are in
IsoText(y, m, d, h, off) ==
  [k |-> "iso", y |-> y, m |-> m, d |-> d, h |-> h, off |-> off]

EmptyText == [k |-> "empty"]

\* a non-empty text that is no date ("tomorrow")
OtherText == [k |-> "text"]

TextLength(s) ==
  IF s.k = "empty" THEN 0
  ELSE IF s.k = "ymd" THEN s.yw + 6
  ELSE IF s.k = "iso" THEN 25
  ELSE IF s.k = "string" THEN s.len
  ELSE 8

\* new Date(text): a date-only text is UTC midnight of that day, a text with
\* an offset is that instant, anything else is an Invalid Date
NewDateFromText(s) ==
  IF s.k = "ymd" THEN DateAt(DaysFromCivil(s.y, s.m, s.d) * 24)
  ELSE IF s.k = "iso" THEN DateAt(DaysFromCivil(s.y, s.m, s.d) * 24 + s.h - s.off)
  ELSE InvalidDate

\* date.toISOString().split("T")[0]: the UTC calendar date of the instant
ToISODatePart(date) ==
  LET f == FieldsAt(date.t, 0) IN Ymd(f.y, f.m, f.d)

\* ------------------------------------------------------------------------
\* lib/date-utils.ts
\* ------------------------------------------------------------------------
\* the year, month and day read with the UTC getters
formatDateForDbUtc(date, off) == ToISODatePart(date)

\* `${year}-${month}-${day}`: month and day padded to two digits, the year
\* printed as the number it is
formatDateForDb(date, off) ==
  LET year  == getFullYear(date, off)
      month == getMonth(date, off) + 1
      day   == getDate(date, off)
  IN  DateText(Digits(year), year, month, day)

\* split("-").map(Number) reads the numbers whatever their padding
parseDateFromDb(dateString, off) ==
  LET year  == dateString.y
      month == dateString.m
      day   == dateString.d
  IN  NewDateLocal(year, month - 1, day, off)

\* ------------------------------------------------------------------------
\* Relational store (schema): the four tables and their serial counters
\* ------------------------------------------------------------------------
\* { ...a, ...b }: the fields of b win over those of a
Spread(a, b) ==
  [f \in DOMAIN a \cup DOMAIN b |-> IF f \in DOMAIN b THEN b[f] ELSE a[f]]

\* the value a column gets from an insert: an absent or undefined field
\* becomes NULL
ColumnValue(values, f) ==
  IF f \in DOMAIN values
  THEN (IF values[f] = Undefined THEN Null ELSE values[f])
  ELSE Null

\* comparison of two values of a date column
DateLeq(a, b) == DaysFromCivil(a.y, a.m, a.d) <= DaysFromCivil(b.y, b.m, b.d)

\* all orders in which the rows of the set S can be returned
Orderings(S) ==
  {q \in [1 .. Cardinality(S) -> S] :
     \A i, j \in 1 .. Cardinality(S) : i # j => q[i] # q[j]}

\* the rows of table workouts_exercises hanging under workout wid, and the
\* rows of table sets hanging under those (onDelete: cascade)
ExercisesOfWorkout(d, wid) == {we \in d.workoutExercises : we.workoutId = wid}

SetsOfWorkout(d, wid) ==
  {s \in d.sets :
     \E we \in ExercisesOfWorkout(d, wid) : s.workoutExerciseId = we.id}

\* result of a helper call: the store afterwards, what was thrown (or
\* "none"), the value returned and the number of statements sent to the store
Outcome(d, threw, value, stmts) ==
  [db |-> d, threw |-> threw, value |-> value, stmts |-> stmts]

\* the awaited statement rejects (the store cannot be reached): one
\* statement was sent, nothing of it took effect
StatementFailed(d) == Outcome(d, "StorageError", Undefined, 1)

\* ------------------------------------------------------------------------
\* src/data/workouts.ts (write helpers)
\* ------------------------------------------------------------------------
\* values({ date, userId, ...data }): the fields of data written last
createWorkoutTrustingData(d, userId, data) ==
  IF userId = NoUser THEN Outcome(d, "Unauthorized", Undefined, 0)
  ELSE IF ~data.date.valid THEN Outcome(d, "RangeError", Undefined, 0)
  ELSE
    LET values  == Spread([userId |-> userId],
                          [data EXCEPT !.date = ToISODatePart(data.date)])
        workout == [id              |-> d.nextWorkoutId,
                    userId          |-> values.userId,
                    date            |-> values.date,
                    name            |-> ColumnValue(values, "name"),
                    durationMinutes |-> ColumnValue(values, "durationMinutes"),
                    notes           |-> ColumnValue(values, "notes"),
                    createdAt       |-> d.nextWorkoutId]
    IN  Outcome([d EXCEPT !.workouts = @ \cup {workout},
                          !.nextWorkoutId = @ + 1],
                "none", workout, 1)

createWorkout(d, userId, data) ==
  IF userId = NoUser THEN Outcome(d, "Unauthorized", Undefined, 0)
  ELSE IF ~data.date.valid THEN Outcome(d, "RangeError", Undefined, 0)
  ELSE IF ~d.online THEN StatementFailed(d)
  ELSE
    LET values  == Spread(data, [date |-> ToISODatePart(data.date),
                                 userId |-> userId])
        workout == [id              |-> d.nextWorkoutId,
                    userId          |-> values.userId,
                    date            |-> values.date,
                    name            |-> ColumnValue(values, "name"),
                    durationMinutes |-> ColumnValue(values, "durationMinutes"),
                    notes           |-> ColumnValue(values, "notes"),
                    createdAt       |-> d.nextWorkoutId]
    IN  Outcome([d EXCEPT !.workouts = @ \cup {workout},
                          !.nextWorkoutId = @ + 1],
                "none", workout, 1)

\* an update whose WHERE clause names the id alone
updateWorkoutOfAnyone(d, userId, workoutId, data) ==
  IF userId = NoUser THEN Outcome(d, "Unauthorized", Undefined, 0)
  ELSE
    LET updateData ==
          [name            |-> data.name,
           durationMinutes |-> data.durationMinutes,
           notes           |-> data.notes,
           date            |-> ToISODatePart(data.date)]
        matched  == {w \in d.workouts : w.id = workoutId}
        Updated(w) ==
          [f \in DOMAIN w |->
             IF f \in DOMAIN updateData /\ updateData[f] # Undefined
             THEN updateData[f] ELSE w[f]]
    IN  IF matched = {} THEN Outcome(d, "none", Undefined, 1)
        ELSE LET w == CHOOSE x \in matched : TRUE
             IN  Outcome([d EXCEPT !.workouts = (@ \ {w}) \cup {Updated(w)}],
                         "none", Updated(w), 1)

updateWorkout(d, userId, workoutId, data) ==
  IF userId = NoUser THEN Outcome(d, "Unauthorized", Undefined, 0)
  ELSE IF data.date # Undefined /\ ~data.date.valid
  THEN Outcome(d, "RangeError", Undefined, 0)
  ELSE
    LET updateData ==
          [name            |-> data.name,
           durationMinutes |-> data.durationMinutes,
           notes           |-> data.notes,
           date            |-> IF data.date # Undefined
                               THEN ToISODatePart(data.date) ELSE Undefined]
        supplied == {f \in DOMAIN updateData : updateData[f] # Undefined}
        matched  == {w \in d.workouts : w.id = workoutId /\ w.userId = userId}
        Updated(w) ==
          [f \in DOMAIN w |-> IF f \in supplied THEN updateData[f] ELSE w[f]]
    IN  IF supplied = {} THEN Outcome(d, "NoValuesToSet", Undefined, 0)
        ELSE IF ~d.online THEN StatementFailed(d)
        ELSE IF matched = {} THEN Outcome(d, "none", Undefined, 1)
        ELSE LET w == CHOOSE x \in matched : TRUE
             IN  Outcome([d EXCEPT !.workouts = (@ \ {w}) \cup {Updated(w)}],
                         "none", Updated(w), 1)

\* a delete that looks the row up first and refuses another owner's row
deleteWorkoutRefusing(d, userId, workoutId) ==
  IF userId = NoUser THEN Outcome(d, "Unauthorized", Undefined, 0)
  ELSE
    LET found == {w \in d.workouts : w.id = workoutId}
    IN  IF found = {} THEN Outcome(d, "none", Undefined, 1)
        ELSE LET w == CHOOSE x \in found : TRUE
             IN  IF w.userId # userId
                 THEN Outcome(d, "Forbidden", Undefined, 1)
                 ELSE Outcome([d EXCEPT
                                 !.workouts = @ \ {w},
                                 !.workoutExercises =
                                    @ \ ExercisesOfWorkout(d, w.id),
                                 !.sets = @ \ SetsOfWorkout(d, w.id)],
                              "none", w, 2)

\* a delete over tables whose foreign keys do not cascade to the sets
deleteWorkoutLeavingSets(d, userId, workoutId) ==
  IF userId = NoUser THEN Outcome(d, "Unauthorized", Undefined, 0)
  ELSE
    LET matched == {w \in d.workouts : w.id = workoutId /\ w.userId = userId}
    IN  IF matched = {} THEN Outcome(d, "none", Undefined, 1)
        ELSE LET w == CHOOSE x \in matched : TRUE
             IN  Outcome([d EXCEPT
                            !.workouts = @ \ {w},
                            !.workoutExercises = @ \ ExercisesOfWorkout(d, w.id)],
                         "none", w, 1)

deleteWorkout(d, userId, workoutId) ==
  IF userId = NoUser THEN Outcome(d, "Unauthorized", Undefined, 0)
  ELSE IF ~d.online THEN StatementFailed(d)
  ELSE
    LET matched == {w \in d.workouts : w.id = workoutId /\ w.userId = userId}
    IN  IF matched = {} THEN Outcome(d, "none", Undefined, 1)
        ELSE LET w == CHOOSE x \in matched : TRUE
             IN  Outcome([d EXCEPT
                            !.workouts = @ \ {w},
                            !.workoutExercises = @ \ ExercisesOfWorkout(d, w.id),
                            !.sets = @ \ SetsOfWorkout(d, w.id)],
                         "none", w, 1)

\* ------------------------------------------------------------------------
\* src/data/workouts.ts (read helpers); a helper whose query leaves the row
\* order open yields the set of its possible outcomes
\* ------------------------------------------------------------------------
Take(q, n) == SubSeq(q, 1, IF Len(q) < n THEN Len(q) ELSE n)

\* Date order of two rows, latest date first
DateDesc(q) ==
  \A i, j \in DOMAIN q : i < j => DateLeq(q[j].date, q[i].date)

\* the query sent without looking at the identity first
getRecentWorkoutsUnchecked(d, userId, limit) ==
  LET mine == {w \in d.workouts : w.userId = userId}
  IN  {Outcome(d, "none", Take(q, limit), 1) :
         q \in {o \in Orderings(mine) : DateDesc(o)}}

getRecentWorkouts(d, userId, limit) ==
  IF userId = NoUser THEN {Outcome(d, "Unauthorized", Undefined, 0)}
  ELSE
    LET mine == {w \in d.workouts : w.userId = userId}
    IN  {Outcome(d, "none", Take(q, limit), 1) :
           q \in {o \in Orderings(mine) : DateDesc(o)}}

getWorkoutById(d, userId, workoutId) ==
  IF userId = NoUser THEN Outcome(d, "Unauthorized", Undefined, 0)
  ELSE
    LET found == {w \in d.workouts : w.id = workoutId /\ w.userId = userId}
    IN  IF found = {} THEN Outcome(d, "none", Undefined, 1)
        ELSE Outcome(d, "none", CHOOSE w \in found : TRUE, 1)

\* .orderBy(workouts.date)
DateAsc(q) ==
  \A i, j \in DOMAIN q : i < j => DateLeq(q[i], q[j])

\* the caller names the user; the dates come back as the column has them
getWorkoutDatesForUser(d, userId, startDate, endDate) ==
  LET dates == {w.date : w \in {x \in d.workouts :
                   /\ x.userId = userId
                   /\ DateLeq(startDate, x.date)
                   /\ DateLeq(x.date, endDate)}}
  IN  Outcome(d, "none", CHOOSE q \in Orderings(dates) : DateAsc(q), 1)

\* ------------------------------------------------------------------------
\* data/workouts.ts
\* ------------------------------------------------------------------------
\* the end of the range taken as the first day of the next month
getWorkoutDatesForMonthThroughFirst(d, userId, year, month, off) ==
  IF userId = NoUser THEN {Outcome(d, "Unauthorized", Undefined, 0)}
  ELSE
    LET startDateString == formatDateForDb(NewDateLocal(year, month, 1, off), off)
        endDateString   == formatDateForDb(NewDateLocal(year, month + 1, 1, off),
                                           off)
        dates == {w.date : w \in {x \in d.workouts :
                     /\ x.userId = userId
                     /\ DateLeq(startDateString, x.date)
                     /\ DateLeq(x.date, endDateString)}}
    IN  {Outcome(d, "none", [i \in DOMAIN q |-> parseDateFromDb(q[i], off)], 1) :
           q \in Orderings(dates)}

getWorkoutDatesForMonth(d, userId, year, month, off) ==
  IF userId = NoUser THEN {Outcome(d, "Unauthorized", Undefined, 0)}
  ELSE
    LET startDate       == NewDateLocal(year, month, 1, off)
        endDate         == NewDateLocal(year, month + 1, 0, off)
        startDateString == formatDateForDb(startDate, off)
        endDateString   == formatDateForDb(endDate, off)
        dates == {w.date : w \in {x \in d.workouts :
                     /\ x.userId = userId
                     /\ DateLeq(startDateString, x.date)
                     /\ DateLeq(x.date, endDateString)}}
    IN  {Outcome(d, "none", [i \in DOMAIN q |-> parseDateFromDb(q[i], off)], 1) :
           q \in Orderings(dates)}

\* first query of getWorkoutsByDate: the caller's workouts of that day,
\* latest created first
\* the query without its ORDER BY
CreatedAnyOrder(q) == TRUE

CreatedDesc(q) ==
  \A i, j \in DOMAIN q : i < j => q[i].createdAt >= q[j].createdAt

\* the first query without its ownership predicate
WorkoutsOfDayOfAnyone(d, userId, dateString) ==
  LET rows == {w \in d.workouts : w.date = dateString}
  IN  {q \in Orderings(rows) : CreatedDesc(q)}

WorkoutsOfDay(d, userId, dateString) ==
  LET rows == {w \in d.workouts : w.userId = userId /\ w.date = dateString}
  IN  {q \in Orderings(rows) : CreatedDesc(q)}

\* second query, one per workout: workout_exercises inner join exercises
\* left join sets, for one workout id
\* the same with sets joined by an inner join
JoinRowsInner(d, workoutId) ==
  LET wes == {we \in d.workoutExercises : we.workoutId = workoutId}
      Pairs == {<<we, ex>> \in wes \X d.exercises : we.exerciseId = ex.id}
  IN  UNION {{[workoutExercise |-> p[1], exercise |-> p[2], set |-> st] :
                st \in {x \in d.sets : x.workoutExerciseId = p[1].id}} :
             p \in Pairs}

JoinRows(d, workoutId) ==
  LET wes == {we \in d.workoutExercises : we.workoutId = workoutId}
      Pairs == {<<we, ex>> \in wes \X d.exercises : we.exerciseId = ex.id}
      SetsOf(we) == {st \in d.sets : st.workoutExerciseId = we.id}
  IN  UNION {IF SetsOf(p[1]) = {}
             THEN {[workoutExercise |-> p[1], exercise |-> p[2], set |-> Null]}
             ELSE {[workoutExercise |-> p[1], exercise |-> p[2], set |-> st] :
                     st \in SetsOf(p[1])} : p \in Pairs}

SetView(st) ==
  [setNumber    |-> st.setNumber,
   weight       |-> st.weight,
   reps         |-> st.reps,
   rpe          |-> st.rpe,
   isBodyweight |-> st.isBodyweight]

\* exercisesMap: entries in insertion order, keyed by exerciseId
RECURSIVE GroupByExercise(_, _)
GroupByExercise(items, map) ==
  IF items = <<>> THEN map
  ELSE
    LET item       == Head(items)
        exerciseId == item.workoutExercise.exerciseId
        has        == \E i \in DOMAIN map : map[i].key = exerciseId
        map1 == IF has THEN map
                ELSE Append(map, [key  |-> exerciseId,
                                  id   |-> item.exercise.id,
                                  name |-> item.exercise.name,
                                  sets |-> <<>>])
        map2 == IF item.set # Null
                THEN [i \in DOMAIN map1 |->
                        IF map1[i].key = exerciseId
                        THEN [map1[i] EXCEPT !.sets = Append(@, SetView(item.set))]
                        ELSE map1[i]]
                ELSE map1
    IN  GroupByExercise(Tail(items), map2)

\* Array.prototype.sort by setNumber (stable)
RECURSIVE InsertBySetNumber(_, _)
InsertBySetNumber(sorted, x) ==
  IF sorted = <<>> THEN <<x>>
  ELSE IF Head(sorted).setNumber <= x.setNumber
       THEN <<Head(sorted)>> \o InsertBySetNumber(Tail(sorted), x)
       ELSE <<x>> \o sorted

\* the sets left in the order they were pushed
KeepArrivalOrder(q) == q

RECURSIVE SortBySetNumber(_)
SortBySetNumber(q) ==
  IF q = <<>> THEN <<>>
  ELSE InsertBySetNumber(SortBySetNumber(SubSeq(q, 1, Len(q) - 1)), q[Len(q)])

\* the view object of one workout, from the joined rows in arrival order
WorkoutView(workout, items) ==
  LET exercisesMap == GroupByExercise(items, <<>>)
  IN  [id              |-> workout.id,
       name            |-> workout.name,
       date            |-> NewDateFromText(workout.date),
       durationMinutes |-> workout.durationMinutes,
       notes           |-> workout.notes,
       exercises       |-> [i \in DOMAIN exercisesMap |->
                              [id   |-> exercisesMap[i].id,
                               name |-> exercisesMap[i].name,
                               sets |-> SortBySetNumber(exercisesMap[i].sets)]]]

\* ------------------------------------------------------------------------
\* src/data/workouts.ts: getWorkoutsByUserAndDate, the relational query;
\* rows that tie under an orderBy come in any order
\* ------------------------------------------------------------------------
\* orderBy: [workoutExercises.order]
OrderAsc(q) == \A i, j \in DOMAIN q : i < j => q[i].order <= q[j].order

\* orderBy: [sets.setNumber]
SetNumberAsc(q) ==
  \A i, j \in DOMAIN q : i < j => q[i].setNumber <= q[j].setNumber

\* the sequences that take their i-th element from Choices[i]
Pick(Choices) ==
  {f \in [DOMAIN Choices -> UNION {Choices[i] : i \in DOMAIN Choices}] :
     \A i \in DOMAIN Choices : f[i] \in Choices[i]}

\* with: { exercise: true, sets: { orderBy: [sets.setNumber] } }
WithExerciseAndSets(d, we) ==
  {we @@ [exercise |-> CHOOSE e \in d.exercises : e.id = we.exerciseId,
          sets     |-> q] :
     q \in {o \in Orderings({st \in d.sets : st.workoutExerciseId = we.id}) :
              SetNumberAsc(o)}}

\* with: { workoutExercises: { orderBy: [workoutExercises.order], ... } }
WithWorkoutExercises(d, w) ==
  {w @@ [workoutExercises |-> f] :
     f \in UNION {Pick([i \in DOMAIN q |-> WithExerciseAndSets(d, q[i])]) :
                    q \in {o \in Orderings(ExercisesOfWorkout(d, w.id)) :
                             OrderAsc(o)}}}

getWorkoutsByUserAndDate(d, userId, date) ==
  UNION {Pick([i \in DOMAIN q |-> WithWorkoutExercises(d, q[i])]) :
           q \in WorkoutsOfDay(d, userId, date)}

\* ------------------------------------------------------------------------
\* Input schemas of the server actions (zod): the issues found, in the
\* order of the schema's keys, and the parsed data with unknown keys dropped
\* ------------------------------------------------------------------------
MaxNameLength == 100

MaxNotesLength == 1000

MsgNameRequired == "Workout name is required"

MsgDateRequired == "Date is required"

MsgTooLong == "String must contain at most N character(s)"

MsgNotInteger == "Expected integer, received float"

MsgNotPositive == "Number must be greater than 0"

MsgRequired == "Required"

\* z.string().min(1, ...) without the .max(100)
NameIssuesNoMax(x) ==
  IF x = Undefined THEN <<MsgRequired>>
  ELSE IF x.len < 1 THEN <<MsgNameRequired>> ELSE <<>>

NameIssues(x) ==
  IF x = Undefined THEN <<MsgRequired>>
  ELSE (IF x.len < 1 THEN <<MsgNameRequired>> ELSE <<>>)
       \o (IF x.len > MaxNameLength THEN <<MsgTooLong>> ELSE <<>>)

DateIssues(x) ==
  IF x = Undefined THEN <<MsgRequired>>
  ELSE IF TextLength(x) < 1 THEN <<MsgDateRequired>> ELSE <<>>

\* z.number().int().positive()
PositiveIntIssues(x) ==
  (IF x.half THEN <<MsgNotInteger>> ELSE <<>>)
  \o (IF x.n > 0 \/ (x.n = 0 /\ x.half) THEN <<>> ELSE <<MsgNotPositive>>)

DurationIssues(x) == IF x = Undefined THEN <<>> ELSE PositiveIntIssues(x)

NotesIssues(x) ==
  IF x = Undefined THEN <<>>
  ELSE IF x.len > MaxNotesLength THEN <<MsgTooLong>> ELSE <<>>

IdIssues(x) == IF x = Undefined THEN <<MsgRequired>> ELSE PositiveIntIssues(x)

createWorkoutSchema(input) ==
  [issues |-> NameIssues(input.name) \o DateIssues(input.date)
              \o DurationIssues(input.durationMinutes) \o NotesIssues(input.notes),
   data   |-> [name            |-> input.name,
               date            |-> input.date,
               durationMinutes |-> input.durationMinutes,
               notes           |-> input.notes]]

updateWorkoutSchema(input) ==
  [issues |-> IdIssues(input.id) \o NameIssues(input.name)
              \o DateIssues(input.date)
              \o DurationIssues(input.durationMinutes) \o NotesIssues(input.notes),
   data   |-> [id              |-> input.id,
               name            |-> input.name,
               date            |-> input.date,
               durationMinutes |-> input.durationMinutes,
               notes           |-> input.notes]]

deleteWorkoutSchema(input) ==
  [issues |-> IdIssues(input.id), data |-> [id |-> input.id]]

\* ------------------------------------------------------------------------
\* Server actions: app/dashboard/workout/new/actions.ts and
\* app/dashboard/workout/[workoutId]/actions.ts
\* ------------------------------------------------------------------------
MsgCreateFailed == "Failed to create workout"

MsgUpdateFailed == "Failed to update workout"

MsgDeleteFailed == "Failed to delete workout"

MsgNotFound == "Workout not found or unauthorized"

Success(data) == [success |-> TRUE, data |-> data]

Failure(error) == [success |-> FALSE, error |-> error]

\* what is kept of a helper call: the helper, the identity it resolved, its
\* arguments, what it threw, what it returned, its statements to the store
Call(fn, userId, args, o) ==
  [fn |-> fn, userId |-> userId, args |-> args,
   threw |-> o.threw, value |-> o.value, stmts |-> o.stmts]

\* result of a server action: the store afterwards, the value returned, the
\* helper calls made and the paths revalidated, in order
ActionOutcome(d, result, calls, revalidated) ==
  [db |-> d, result |-> result, calls |-> calls, revalidated |-> revalidated]

\* a create action that answers success while the insert has not yet taken
\* effect in the store
createWorkoutActionAhead(d, caller, input) ==
  LET parsed == createWorkoutSchema(input)
      validatedData == parsed.data
      args == [name            |-> validatedData.name,
               date            |-> NewDateFromText(validatedData.date),
               durationMinutes |-> validatedData.durationMinutes,
               notes           |-> validatedData.notes]
      o == createWorkout(d, caller, args)
  IN  IF parsed.issues # <<>>
      THEN ActionOutcome(d, Failure(parsed.issues[1]), <<>>, <<>>)
      ELSE IF o.threw # "none"
      THEN ActionOutcome(o.db, Failure(MsgCreateFailed),
                         <<Call("createWorkout", caller, args, o)>>, <<>>)
      ELSE ActionOutcome(d, Success(o.value),
                         <<Call("createWorkout", caller, args, o)>>,
                         <<"/dashboard">>)

\* a catch that hands the caught error's own message to the client
createWorkoutActionRevealing(d, caller, input) ==
  LET parsed == createWorkoutSchema(input)
      validatedData == parsed.data
      args == [name            |-> validatedData.name,
               date            |-> NewDateFromText(validatedData.date),
               durationMinutes |-> validatedData.durationMinutes,
               notes           |-> validatedData.notes]
      o == createWorkout(d, caller, args)
  IN  IF parsed.issues # <<>>
      THEN ActionOutcome(d, Failure(parsed.issues[1]), <<>>, <<>>)
      ELSE IF o.threw # "none"
      THEN ActionOutcome(o.db, Failure(o.threw),
                         <<Call("createWorkout", caller, args, o)>>, <<>>)
      ELSE ActionOutcome(o.db, Success(o.value),
                         <<Call("createWorkout", caller, args, o)>>,
                         <<"/dashboard">>)

createWorkoutAction(d, caller, input) ==
  LET parsed == createWorkoutSchema(input)
      validatedData == parsed.data
      args == [name            |-> validatedData.name,
               date            |-> NewDateFromText(validatedData.date),
               durationMinutes |-> validatedData.durationMinutes,
               notes           |-> validatedData.notes]
      o == createWorkout(d, caller, args)
  IN  IF parsed.issues # <<>>
      THEN ActionOutcome(d, Failure(parsed.issues[1]), <<>>, <<>>)
      ELSE IF o.threw # "none"
      THEN ActionOutcome(o.db, Failure(MsgCreateFailed),
                         <<Call("createWorkout", caller, args, o)>>, <<>>)
      ELSE ActionOutcome(o.db, Success(o.value),
                         <<Call("createWorkout", caller, args, o)>>,
                         <<"/dashboard">>)

updateWorkoutAction(d, caller, input) ==
  LET parsed == updateWorkoutSchema(input)
      data == parsed.data
      id   == data.id.n
      args == [name            |-> data.name,
               date            |-> NewDateFromText(data.date),
               durationMinutes |-> data.durationMinutes,
               notes           |-> data.notes]
      o == updateWorkout(d, caller, id, args)
      call == Call("updateWorkout", caller, [id |-> id, data |-> args], o)
  IN  IF parsed.issues # <<>>
      THEN ActionOutcome(d, Failure(parsed.issues[1]), <<>>, <<>>)
      ELSE IF o.threw # "none"
      THEN ActionOutcome(o.db, Failure(MsgUpdateFailed), <<call>>, <<>>)
      ELSE IF o.value = Undefined
      THEN ActionOutcome(o.db, Failure(MsgNotFound), <<call>>, <<>>)
      ELSE ActionOutcome(o.db, Success(o.value), <<call>>,
                         <<"/dashboard", "/dashboard/workout/[id]">>)

\* a delete action that revalidates before it looks at what the helper
\* returned
deleteWorkoutActionRevalidatingFirst(d, caller, input) ==
  LET parsed == deleteWorkoutSchema(input)
      id == parsed.data.id.n
      o == deleteWorkout(d, caller, id)
      call == Call("deleteWorkout", caller, [id |-> id], o)
  IN  IF parsed.issues # <<>>
      THEN ActionOutcome(d, Failure(parsed.issues[1]), <<>>, <<>>)
      ELSE IF o.threw # "none"
      THEN ActionOutcome(o.db, Failure(MsgDeleteFailed), <<call>>, <<>>)
      ELSE IF o.value = Undefined
      THEN ActionOutcome(o.db, Failure(MsgNotFound), <<call>>, <<"/dashboard">>)
      ELSE ActionOutcome(o.db, Success(o.value), <<call>>, <<"/dashboard">>)

deleteWorkoutAction(d, caller, input) ==
  LET parsed == deleteWorkoutSchema(input)
      id == parsed.data.id.n
      o == deleteWorkout(d, caller, id)
      call == Call("deleteWorkout", caller, [id |-> id], o)
  IN  IF parsed.issues # <<>>
      THEN ActionOutcome(d, Failure(parsed.issues[1]), <<>>, <<>>)
      ELSE IF o.threw # "none"
      THEN ActionOutcome(o.db, Failure(MsgDeleteFailed), <<call>>, <<>>)
      ELSE IF o.value = Undefined
      THEN ActionOutcome(o.db, Failure(MsgNotFound), <<call>>, <<>>)
      ELSE ActionOutcome(o.db, Success(o.value), <<call>>, <<"/dashboard">>)

\* ------------------------------------------------------------------------
\* lib/actions/workouts.ts: server action createWorkout(date, name)
\* ------------------------------------------------------------------------
UntitledLength == 16

\* what a column of type date makes of a text: the calendar date written in
\* it (a time and an offset after it are ignored); no date at all is an error
PgDateAccepts(text) == text # Undefined /\ text.k \in {"ymd", "iso"}

PgDate(text) == Ymd(text.y, text.m, text.d)

libCreateWorkout(d, caller, date, name) ==
  IF caller = NoUser
  THEN [db |-> d, threw |-> "Unauthorized", stmts |-> 0, revalidated |-> <<>>]
  ELSE IF ~PgDateAccepts(date)
  THEN [db |-> d, threw |-> "StorageError", stmts |-> 1, revalidated |-> <<>>]
  ELSE
    LET newWorkout ==
          [id              |-> d.nextWorkoutId,
           userId          |-> caller,
           date            |-> PgDate(date),
           name            |-> IF name = Undefined \/ name.len = 0
                               THEN Str(UntitledLength) ELSE name,
           durationMinutes |-> Null,
           notes           |-> Null,
           createdAt       |-> d.nextWorkoutId]
    IN  [db |-> [d EXCEPT !.workouts = @ \cup {newWorkout},
                          !.nextWorkoutId = @ + 1],
         threw |-> "NEXT_REDIRECT", stmts |-> 1,
         revalidated |-> <<"/dashboard">>]

\* ------------------------------------------------------------------------
\* src/db/schema.ts: inserts into workout_exercises and sets, as the
\* constraints of the tables admit them
\* ------------------------------------------------------------------------
MinRpe == 1

MaxRpe == 10

\* the table without its unique constraint on (workout_id, exercise_id)
insertWorkoutExerciseNoUnique(d, values) ==
  IF /\ \E w \in d.workouts : w.id = values.workoutId
     /\ \E e \in d.exercises : e.id = values.exerciseId
  THEN LET row == [id         |-> d.nextWorkoutExerciseId,
                   workoutId  |-> values.workoutId,
                   exerciseId |-> values.exerciseId,
                   order      |-> values.order]
       IN  Outcome([d EXCEPT !.workoutExercises = @ \cup {row},
                             !.nextWorkoutExerciseId = @ + 1],
                   "none", row, 1)
  ELSE Outcome(d, "ConstraintViolation", Undefined, 1)

insertWorkoutExercise(d, values) ==
  IF /\ \E w \in d.workouts : w.id = values.workoutId
     /\ \E e \in d.exercises : e.id = values.exerciseId
     /\ ~\E we \in d.workoutExercises :
           we.workoutId = values.workoutId /\ we.exerciseId = values.exerciseId
  THEN LET row == [id         |-> d.nextWorkoutExerciseId,
                   workoutId  |-> values.workoutId,
                   exerciseId |-> values.exerciseId,
                   order      |-> values.order]
       IN  Outcome([d EXCEPT !.workoutExercises = @ \cup {row},
                             !.nextWorkoutExerciseId = @ + 1],
                   "none", row, 1)
  ELSE Outcome(d, "ConstraintViolation", Undefined, 1)

\* the table without sets_rpe_check
insertSetAnyRpe(d, values) ==
  IF /\ \E we \in d.workoutExercises : we.id = values.workoutExerciseId
     /\ values.reps > 0
     /\ (values.weight = Null \/ values.weight.n >= 0)
     /\ values.setNumber > 0
  THEN LET row == [id |-> d.nextSetId] @@ values
       IN  Outcome([d EXCEPT !.sets = @ \cup {row}, !.nextSetId = @ + 1],
                   "none", row, 1)
  ELSE Outcome(d, "ConstraintViolation", Undefined, 1)

insertSet(d, values) ==
  IF /\ \E we \in d.workoutExercises : we.id = values.workoutExerciseId
     /\ (values.rpe = Null \/ (values.rpe.n >= MinRpe /\ values.rpe.n <= MaxRpe))
     /\ values.reps > 0
     /\ (values.weight = Null \/ values.weight.n >= 0)
     /\ values.setNumber > 0
  THEN LET row == [id |-> d.nextSetId] @@ values
       IN  Outcome([d EXCEPT !.sets = @ \cup {row}, !.nextSetId = @ + 1],
                   "none", row, 1)
  ELSE Outcome(d, "ConstraintViolation", Undefined, 1)

\* UPDATE sets SET values WHERE id = setId: the checks of the table apply
\* to the row as it would become
updateSet(d, setId, values) ==
  LET matched == {x \in d.sets : x.id = setId}
      Updated(x) == [f \in DOMAIN x |->
                       IF f \in DOMAIN values THEN values[f] ELSE x[f]]
  IN  IF matched = {} THEN Outcome(d, "none", Undefined, 1)
      ELSE LET row == Updated(CHOOSE x \in matched : TRUE)
           IN  IF /\ (row.rpe = Null
                       \/ (row.rpe.n >= MinRpe /\ row.rpe.n <= MaxRpe))
                  /\ row.reps > 0
                  /\ (row.weight = Null \/ row.weight.n >= 0)
                  /\ row.setNumber > 0
               THEN Outcome([d EXCEPT !.sets = (@ \ matched) \cup {row}],
                            "none", row, 1)
               ELSE Outcome(d, "ConstraintViolation", Undefined, 1)

\* DELETE FROM exercises WHERE id = exerciseId, with no foreign key
\* guarding the rows that reference the exercise
deleteExerciseUnguarded(d, exerciseId) ==
  Outcome([d EXCEPT !.exercises = {e \in @ : e.id # exerciseId}],
          "none", Undefined, 1)

\* DELETE FROM exercises WHERE id = exerciseId: onDelete 'restrict' on
\* workout_exercises.exercise_id
deleteExercise(d, exerciseId) ==
  IF \E we \in d.workoutExercises : we.exerciseId = exerciseId
  THEN Outcome(d, "ConstraintViolation", Undefined, 1)
  ELSE Outcome([d EXCEPT !.exercises = {e \in @ : e.id # exerciseId}],
               "none", Undefined, 1)

\* ------------------------------------------------------------------------
\* Inputs
\* ------------------------------------------------------------------------
Callers == Users \cup {NoUser}

Day1 == Ymd(2025, 8, 31)

Day2 == Ymd(2025, 9, 1)

WorkoutInput(name, date, durationMinutes, notes) ==
  [name |-> name, date |-> date,
   durationMinutes |-> durationMinutes, notes |-> notes]

InputA == WorkoutInput(Str(1), Day1, Undefined, Undefined)

InputB == WorkoutInput(Str(MaxNameLength), Day2, Num(30), Str(MaxNotesLength))

ValidInputs == {InputA, InputB}

InvalidInputs ==
  {WorkoutInput(Str(0), Day1, Undefined, Undefined),
   WorkoutInput(Str(MaxNameLength + 1), Day1, Undefined, Undefined),
   WorkoutInput(Str(1), EmptyText, Undefined, Undefined),
   WorkoutInput(Str(1), Day1, Num(0), Undefined),
   WorkoutInput(Str(1), Day1, NumHalf(1), Undefined),
   WorkoutInput(Str(1), Day1, Undefined, Str(MaxNotesLength + 1))}

\* an input object that carries an owner of its own
SpoofedInputs == {[userId |-> u] @@ InputA : u \in Users}

\* the same handed to the data helper, its date a Date
SpoofedData ==
  {[x EXCEPT !.date = NewDateFromText(x.date)] : x \in SpoofedInputs}

\* the partial data of updateWorkout: every subset of the four fields
PartialDatas ==
  [name            : {Undefined, Str(2)},
   date            : {Undefined, NewDateFromText(Day2)},
   durationMinutes : {Undefined, Num(30)},
   notes           : {Undefined, Str(3)}]

\* an input the schema refuses
NamelessInput == WorkoutInput(Str(0), Day1, Undefined, Undefined)

\* a date text that passes the schema and is no date
UnparseableInput == WorkoutInput(Str(1), OtherText, Undefined, Undefined)

\* a date text with a time and a zone offset ("2025-08-31T22:00:00-05:00")
TimestampInput ==
  WorkoutInput(Str(1), IsoText(2025, 8, 31, 22, -5), Undefined, Undefined)

MalformedDateInputs == {UnparseableInput, TimestampInput}

\* the ids the serial of a table has given out, and the next one, which no
\* row has yet
WorkoutIds(d) == 1 .. d.nextWorkoutId

WorkoutExerciseIds(d) == 1 .. d.nextWorkoutExerciseId

IdsOf(ids) == {Num(i) : i \in ids}

WithId(i, x) == [id |-> i] @@ x

Catalog == {[id |-> 1, name |-> Str(5)], [id |-> 2, name |-> Str(7)]}

WorkoutExerciseInputs(d) ==
  {[workoutId |-> w, exerciseId |-> e[1], order |-> e[2]] :
     w \in WorkoutIds(d), e \in {<<1, 2>>, <<2, 1>>}}

SetInput(we, setNumber, isBodyweight, weight, reps, rpe) ==
  [workoutExerciseId |-> we, setNumber |-> setNumber,
   isBodyweight |-> isBodyweight, weight |-> weight, reps |-> reps,
   rpe |-> rpe]

\* one set of 5 at 60
PlainSets(we) == {SetInput(we, 1, FALSE, Num(60), 5, Null)}

\* a first and a second set
NumberedSets(we) ==
  {SetInput(we, n, FALSE, Num(60), 5, Null) : n \in {1, 2}}

\* sets at and beyond the edges of the checks of the table
EdgeSets(we) ==
  {SetInput(we, 1, FALSE, Num(60), 5, Num(MaxRpe)),
   SetInput(we, 1, TRUE, Null, 5, Null),
   SetInput(we, 0, FALSE, Num(60), 5, Null),
   SetInput(we, 1, FALSE, Num(60), 0, Null),
   SetInput(we, 1, FALSE, Num(0 - 1), 5, Null),
   SetInput(we, 1, FALSE, Num(0), 5, Num(MaxRpe + 1)),
   SetInput(we, 1, FALSE, Num(0), 5, Num(MinRpe - 1))}

\* the same as the fields of an update
EdgeSetFields ==
  {[reps |-> 0], [setNumber |-> 0], [weight |-> Num(0 - 1)],
   [rpe |-> Num(MaxRpe + 1)], [rpe |-> Null]}

\* ------------------------------------------------------------------------
\* State: the store, the host's UTC offset, the outcome of the operation
\* that has just run (until its caller has taken it), and the position of
\* a getWorkoutsByDate in progress
\* ------------------------------------------------------------------------
Idle == [pc |-> "idle"]

\* the outcome of an operation: the operation, the caller, the input, what
\* it threw, what it returned, its statements to the store, the helper calls
\* it made and the paths it revalidated
Did(op, user, input, threw, value, stmts, calls, revalidated) ==
  [op |-> op, user |-> user, input |-> input, threw |-> threw,
   value |-> value, stmts |-> stmts, calls |-> calls,
   revalidated |-> revalidated]

Nothing == Did("none", NoUser, Undefined, "none", Undefined, 0, <<>>, <<>>)

\* a mounted form: its props, its useState cells, and the server action
\* call its handler awaits: which handler called (call), with what (data),
\* whether the request or the response is on its way (awaiting), and the
\* result the action returned (response)
FormOf(kind, user, workoutId, param, now, date) ==
  [kind |-> kind, user |-> user, workoutId |-> workoutId, param |-> param,
   now |-> now, defaultDate |-> date, isPending |-> FALSE,
   isDeleting |-> FALSE, error |-> Null, call |-> "none",
   awaiting |-> "none", data |-> Undefined, response |-> Null,
   navigated |-> FALSE]

\* no form is mounted
Closed == FormOf("none", NoUser, 0, Null, DateAt(0), Null)

EmptyStore ==
  [workouts |-> {}, workoutExercises |-> {}, sets |-> {},
   exercises |-> Catalog,
   nextWorkoutId |-> 1, nextWorkoutExerciseId |-> 1, nextSetId |-> 1,
   online |-> TRUE]

InitAt(offsets) ==
  /\ db = EmptyStore
  /\ tz \in offsets
  /\ last = Nothing
  /\ reader = Idle
  /\ form = Closed

Init == InitAt(HostOffsets)

\* a host that runs in UTC
InitUtc == InitAt({0})

\* the serial counters stay within the bounds of the model
WithinBounds(d) ==
  /\ d.nextWorkoutId - 1 <= MaxWorkouts
  /\ (d.nextWorkoutId - 1) + (d.nextWorkoutExerciseId - 1)
       + (d.nextSetId - 1) <= MaxRows

\* the store stops answering, and answers again
Disconnect ==
  /\ last.op = "none"
  /\ db.online
  /\ db' = [db EXCEPT !.online = FALSE]
  /\ UNCHANGED <<tz, last, reader, form>>

Reconnect ==
  /\ last.op = "none"
  /\ ~db.online
  /\ db' = [db EXCEPT !.online = TRUE]
  /\ UNCHANGED <<tz, last, reader, form>>

\* the caller takes the outcome; the next operation starts after that
Respond ==
  /\ last.op # "none"
  /\ last' = Nothing
  /\ reader' = IF reader.pc = "done" THEN Idle ELSE reader
  /\ UNCHANGED <<db, tz, form>>

SumStmts(calls) == IF calls = <<>> THEN 0 ELSE calls[1].stmts

ActionStep(op, caller, input, o) ==
  /\ WithinBounds(o.db)
  /\ db' = o.db
  /\ last' = Did(op, caller, input, "none", o.result, SumStmts(o.calls),
                 o.calls, o.revalidated)
  /\ UNCHANGED <<tz, reader, form>>

CreateWorkoutActionOn(callers, inputs) ==
  /\ last.op = "none"
  /\ \E caller \in callers, input \in inputs :
       ActionStep("createWorkoutAction", caller, input,
                  createWorkoutAction(db, caller, input))

UpdateWorkoutActionOn(callers, otherIds, inputs) ==
  /\ last.op = "none"
  /\ \E caller \in callers, id \in IdsOf(WorkoutIds(db)) \cup otherIds,
        x \in inputs :
       ActionStep("updateWorkoutAction", caller, WithId(id, x),
                  updateWorkoutAction(db, caller, WithId(id, x)))

DeleteWorkoutActionOn(callers, otherIds) ==
  /\ last.op = "none"
  /\ \E caller \in callers, id \in IdsOf(WorkoutIds(db)) \cup otherIds :
       ActionStep("deleteWorkoutAction", caller, [id |-> id],
                  deleteWorkoutAction(db, caller, [id |-> id]))

\* the data helper createWorkout called by server code
CreateWorkoutOn(callers, datas) ==
  /\ last.op = "none"
  /\ \E caller \in callers, data \in datas :
       LET o == createWorkout(db, caller, data)
       IN  /\ WithinBounds(o.db)
           /\ db' = o.db
           /\ last' = Did("data.createWorkout", caller, data, o.threw,
                          o.value, o.stmts, <<>>, <<>>)
           /\ UNCHANGED <<tz, reader, form>>

\* the data helper updateWorkout called by server code
UpdateWorkoutOn(callers, datas) ==
  /\ last.op = "none"
  /\ \E caller \in callers, workoutId \in WorkoutIds(db), data \in datas :
       LET o == updateWorkout(db, caller, workoutId, data)
       IN  /\ WithinBounds(o.db)
           /\ db' = o.db
           /\ last' = Did("data.updateWorkout", caller,
                          [id |-> workoutId, data |-> data], o.threw,
                          o.value, o.stmts, <<>>, <<>>)
           /\ UNCHANGED <<tz, reader, form>>

LibCreateWorkoutOn(callers, dates, names) ==
  /\ last.op = "none"
  /\ \E caller \in callers, date \in dates, name \in names :
       LET o == libCreateWorkout(db, caller, date, name)
       IN  /\ WithinBounds(o.db)
           /\ db' = o.db
           /\ last' = Did("lib.createWorkout", caller,
                          [date |-> date, name |-> name],
                          o.threw, Undefined, o.stmts, <<>>, o.revalidated)
           /\ UNCHANGED <<tz, reader, form>>

StorageStep(op, values, o) ==
  /\ WithinBounds(o.db)
  /\ db' = o.db
  /\ last' = Did(op, NoUser, values, o.threw, o.value, o.stmts, <<>>, <<>>)
  /\ UNCHANGED <<tz, reader, form>>

InsertWorkoutExercise ==
  /\ last.op = "none"
  /\ \E values \in WorkoutExerciseInputs(db) :
       StorageStep("insertWorkoutExercise", values,
                   insertWorkoutExercise(db, values))

InsertSet ==
  /\ last.op = "none"
  /\ \E we \in WorkoutExerciseIds(db) :
       \E values \in PlainSets(we) :
         StorageStep("insertSet", values, insertSet(db, values))

InsertNumberedSet ==
  /\ last.op = "none"
  /\ \E we \in WorkoutExerciseIds(db) :
       \E values \in NumberedSets(we) :
         StorageStep("insertSet", values, insertSet(db, values))

InsertEdgeSet ==
  /\ last.op = "none"
  /\ \E we \in WorkoutExerciseIds(db) :
       \E values \in EdgeSets(we) :
         StorageStep("insertSet", values, insertSet(db, values))

DeleteExercise ==
  /\ last.op = "none"
  /\ \E e \in Catalog :
       StorageStep("deleteExercise", [id |-> e.id], deleteExercise(db, e.id))

UpdateSet ==
  /\ last.op = "none"
  /\ \E setId \in 1 .. db.nextSetId, values \in EdgeSetFields :
       StorageStep("updateSet", [id |-> setId, values |-> values],
                   updateSet(db, setId, values))

ReadStep(op, caller, input, o) ==
  /\ last' = Did(op, caller, input, o.threw, o.value, o.stmts, <<>>, <<>>)
  /\ UNCHANGED <<db, tz, reader, form>>

GetRecentWorkoutsOn(callers) ==
  /\ last.op = "none"
  /\ \E caller \in callers, limit \in {1, 10} :
       \E o \in getRecentWorkouts(db, caller, limit) :
         ReadStep("getRecentWorkouts", caller, [limit |-> limit], o)

GetWorkoutByIdOn(callers) ==
  /\ last.op = "none"
  /\ \E caller \in callers, id \in WorkoutIds(db) :
       ReadStep("getWorkoutById", caller, [workoutId |-> id],
                getWorkoutById(db, caller, id))

GetWorkoutDatesForMonthOn(callers) ==
  /\ last.op = "none"
  /\ \E caller \in callers, month \in {7, 8} :
       \E o \in getWorkoutDatesForMonth(db, caller, 2025, month, tz) :
         ReadStep("getWorkoutDatesForMonth", caller,
                  [year |-> 2025, month |-> month], o)

GetWorkoutDatesForUserOn(users, ranges) ==
  /\ last.op = "none"
  /\ \E userId \in users, range \in ranges :
       ReadStep("getWorkoutDatesForUser", userId,
                [startDate |-> range[1], endDate |-> range[2]],
                getWorkoutDatesForUser(db, userId, range[1], range[2]))

\* ------------------------------------------------------------------------
\* getWorkoutsByDate, one step per round trip to the store.  The page calls
\* it with parseDateFromDb of its date parameter.  reader.before keeps, for
\* the properties only, the joined rows each workout had when the first
\* query ran.
\* ------------------------------------------------------------------------
ReaderDays == {Day1, Day2}

\* the grouping, for every order the joined rows may have arrived in
PossibleViews(workout, items) ==
  {WorkoutView(workout, q) : q \in Orderings(items)}

\* the results the grouping can give for the rows and the joined rows read
PossibleResults(rows, data) ==
  LET Views(i) == PossibleViews(rows[i], data[rows[i].id])
  IN  {v \in [DOMAIN rows -> UNION {Views(i) : i \in DOMAIN rows}] :
         \A i \in DOMAIN rows : v[i] \in Views(i)}

Reading(caller, date, userWorkouts, pending, data, before) ==
  [pc |-> "fetch", userId |-> caller, date |-> date,
   userWorkouts |-> userWorkouts, pending |-> pending, data |-> data,
   before |-> before]

GetWorkoutsByDateQueryOn(callers) ==
  /\ reader.pc = "idle"
  /\ last.op = "none"
  /\ \E caller \in callers, day \in ReaderDays :
       LET date       == parseDateFromDb(day, tz)
           dateString == formatDateForDb(date, tz)
       IN  IF caller = NoUser
           THEN /\ last' = Did("getWorkoutsByDate", caller, date,
                               "Unauthorized", Undefined, 0, <<>>, <<>>)
                /\ UNCHANGED <<db, tz, reader, form>>
           ELSE \E userWorkouts \in WorkoutsOfDay(db, caller, dateString) :
                  IF Len(userWorkouts) = 0
                  THEN /\ last' = Did("getWorkoutsByDate", caller, date,
                                      "none", <<>>, 1, <<>>, <<>>)
                       /\ UNCHANGED <<db, tz, reader, form>>
                  ELSE LET workoutIds ==
                             {userWorkouts[i].id : i \in DOMAIN userWorkouts}
                       IN  /\ reader' =
                                Reading(caller, date, userWorkouts, workoutIds,
                                        [id \in {} |-> {}],
                                        [id \in workoutIds |-> JoinRows(db, id)])
                           /\ UNCHANGED <<db, tz, last, form>>

GetWorkoutsByDateFetch ==
  /\ reader.pc = "fetch"
  /\ last.op = "none"
  /\ \E workoutId \in reader.pending :
       reader' = [reader EXCEPT
                    !.pending = @ \ {workoutId},
                    !.data = @ @@ (workoutId :> JoinRows(db, workoutId))]
  /\ UNCHANGED <<db, tz, last, form>>

GetWorkoutsByDateReturn ==
  /\ reader.pc = "fetch"
  /\ reader.pending = {}
  /\ last.op = "none"
  /\ \E workoutsWithExercises \in
          PossibleResults(reader.userWorkouts, reader.data) :
       last' = Did("getWorkoutsByDate", reader.userId, reader.date,
                   "none", workoutsWithExercises,
                   1 + Len(reader.userWorkouts), <<>>, <<>>)
  /\ reader' = [reader EXCEPT !.pc = "done"]
  /\ UNCHANGED <<db, tz, form>>

\* getWorkoutsByDate with no other operation between its round trips
GetWorkoutsByUserAndDateOn(users) ==
  /\ last.op = "none"
  /\ \E userId \in users, date \in ReaderDays :
       \E result \in getWorkoutsByUserAndDate(db, userId, date) :
         ReadStep("getWorkoutsByUserAndDate", userId, date,
                  Outcome(db, "none", result, 1))

GetWorkoutsByDateOn(callers) ==
  /\ reader.pc = "idle"
  /\ last.op = "none"
  /\ \E caller \in callers, day \in ReaderDays :
       LET date       == parseDateFromDb(day, tz)
           dateString == formatDateForDb(date, tz)
       IN  IF caller = NoUser
           THEN /\ last' = Did("getWorkoutsByDate", caller, date,
                               "Unauthorized", Undefined, 0, <<>>, <<>>)
                /\ reader' = reader
           ELSE \E userWorkouts \in WorkoutsOfDay(db, caller, dateString) :
                  LET workoutIds ==
                        {userWorkouts[i].id : i \in DOMAIN userWorkouts}
                      data == [id \in workoutIds |-> JoinRows(db, id)]
                  IN  /\ \E workoutsWithExercises \in
                              PossibleResults(userWorkouts, data) :
                           last' = Did("getWorkoutsByDate", caller, date,
                                       "none", workoutsWithExercises,
                                       1 + Len(userWorkouts), <<>>, <<>>)
                      /\ reader' =
                           IF Len(userWorkouts) = 0 THEN reader
                           ELSE [Reading(caller, date, userWorkouts, {},
                                         data, data) EXCEPT !.pc = "done"]
  /\ UNCHANGED <<db, tz, form>>

\* ------------------------------------------------------------------------
\* Spec: every entry point of the program over the workouts table, for
\* every caller and host offset
\* ------------------------------------------------------------------------
Next ==
  \/ CreateWorkoutActionOn(Callers, {InputA} \cup SpoofedInputs)
  \/ CreateWorkoutOn(Callers, SpoofedData)
  \/ UpdateWorkoutActionOn(Callers, {}, {InputB})
  \/ DeleteWorkoutActionOn(Callers, {})
  \/ LibCreateWorkoutOn(Callers, {Day1},
                        {Undefined, Str(MaxNameLength + 1)})
  \/ GetRecentWorkoutsOn(Callers)
  \/ GetWorkoutByIdOn(Callers)
  \/ GetWorkoutDatesForMonthOn(Callers)
  \/ GetWorkoutsByDateOn(Callers)
  \/ Respond

Spec == Init /\ [][Next]_vars

\* ------------------------------------------------------------------------
\* SpecValidation: the server actions on well-formed and ill-formed inputs
\* ------------------------------------------------------------------------
NextValidation ==
  \/ CreateWorkoutActionOn(Users, ValidInputs \cup InvalidInputs
                                    \cup MalformedDateInputs)
  \/ UpdateWorkoutActionOn(Users, {Num(0), NumHalf(1)},
                           ValidInputs \cup InvalidInputs
                             \cup MalformedDateInputs)
  \/ DeleteWorkoutActionOn(Users, {Num(0), NumHalf(1)})
  \/ Respond

SpecValidation == InitUtc /\ [][NextValidation]_vars

\* ------------------------------------------------------------------------
\* SpecZones: one user's dates, written and read back, in every host offset
\* ------------------------------------------------------------------------
ZoneInputs ==
  {InputA, InputB,
   WorkoutInput(Str(1), IsoText(2025, 8, 31, 22, -5), Undefined, Undefined)}

NextZones ==
  \/ CreateWorkoutActionOn({"u1"}, ZoneInputs)
  \/ UpdateWorkoutActionOn({"u1"}, {}, ZoneInputs)
  \/ GetWorkoutDatesForMonthOn({"u1"})
  \/ GetWorkoutsByDateOn({"u1"})
  \/ Respond

SpecZones == Init /\ [][NextZones]_vars

\* ------------------------------------------------------------------------
\* SpecTree: two users over the whole tree of workouts, exercises and sets
\* ------------------------------------------------------------------------
NextTree ==
  \/ CreateWorkoutActionOn(Users, {InputA})
  \/ UpdateWorkoutActionOn(Users, {}, {InputB})
  \/ DeleteWorkoutActionOn(Users, {})
  \/ InsertWorkoutExercise
  \/ InsertSet
  \/ GetRecentWorkoutsOn(Users)
  \/ GetWorkoutByIdOn(Users)
  \/ GetWorkoutDatesForMonthOn(Users)
  \/ GetWorkoutsByDateOn(Users)
  \/ Respond

SpecTree == InitUtc /\ [][NextTree]_vars

\* ------------------------------------------------------------------------
\* SpecReader: a getWorkoutsByDate whose round trips interleave with the
\* writes of the same user
\* ------------------------------------------------------------------------
NextReader ==
  \/ CreateWorkoutActionOn({"u1"}, {InputA})
  \/ DeleteWorkoutActionOn({"u1"}, {})
  \/ InsertWorkoutExercise
  \/ InsertSet
  \/ GetWorkoutsByDateQueryOn({"u1"})
  \/ GetWorkoutsByDateFetch
  \/ GetWorkoutsByDateReturn
  \/ Respond

SpecReader == InitUtc /\ [][NextReader]_vars

\* ------------------------------------------------------------------------
\* SpecDates: the two conversions of lib/date-utils.ts, composed both ways,
\* on the days of the sample years in every host offset
\* ------------------------------------------------------------------------
SampleYears == {50, 999, 1000, 1970, 2024, 9999}

SampleDays ==
  {ymd \in SampleYears \X (1 .. 12) \X (1 .. 31) :
     ymd[3] <= DaysInMonth(ymd[1], ymd[2])}

InitDates ==
  /\ db = EmptyStore
  /\ tz \in AllOffsets
  /\ last = Nothing
  /\ reader = Idle
  /\ form = Closed

\* D is the Date at local midnight of the day; the result is
\* parseDateFromDb(formatDateForDb(D))
FormatThenParse ==
  /\ last.op = "none"
  /\ \E ymd \in SampleDays :
       LET D == DateAt(DaysFromCivil(ymd[1], ymd[2], ymd[3]) * 24 - tz)
       IN  last' = Did("parseDateFromDb(formatDateForDb)", NoUser, D, "none",
                       parseDateFromDb(formatDateForDb(D, tz), tz),
                       0, <<>>, <<>>)
  /\ UNCHANGED <<db, tz, reader, form>>

\* s is the text YYYY-MM-DD of the day; the result is
\* formatDateForDb(parseDateFromDb(s))
ParseThenFormat ==
  /\ last.op = "none"
  /\ \E ymd \in SampleDays :
       LET s == Ymd(ymd[1], ymd[2], ymd[3])
       IN  last' = Did("formatDateForDb(parseDateFromDb)", NoUser, s, "none",
                       formatDateForDb(parseDateFromDb(s, tz), tz),
                       0, <<>>, <<>>)
  /\ UNCHANGED <<db, tz, reader, form>>

NextDates == FormatThenParse \/ ParseThenFormat \/ Respond

SpecDates == InitDates /\ [][NextDates]_vars

\* ------------------------------------------------------------------------
\* Properties
\* ------------------------------------------------------------------------
ReadOps ==
  {"getRecentWorkouts", "getWorkoutById", "getWorkoutDatesForMonth",
   "getWorkoutsByDate"}

WriteActions ==
  {"createWorkoutAction", "updateWorkoutAction", "deleteWorkoutAction"}

\* the operations that resolve the caller's identity
IdentityOps ==
  ReadOps \cup WriteActions \cup {"data.createWorkout", "lib.createWorkout"}

\* the rows of table workouts that user u owns in store d
OwnWorkouts(d, u) == {w \in d.workouts : w.userId = u}

\* view v of getWorkoutsByDate is made of workout w of store d and of rows
\* hanging under w, and of nothing else
ViewMadeOf(d, v, w) ==
  /\ v.id = w.id
  /\ v.name = w.name
  /\ v.notes = w.notes
  /\ v.durationMinutes = w.durationMinutes
  /\ v.date = NewDateFromText(w.date)
  /\ \A j \in DOMAIN v.exercises :
       \E we \in ExercisesOfWorkout(d, w.id) :
         /\ we.exerciseId = v.exercises[j].id
         /\ \A k \in DOMAIN v.exercises[j].sets :
              \E st \in d.sets :
                /\ st.workoutExerciseId = we.id
                /\ SetView(st) = v.exercises[j].sets[k]

\* everything the read that has just returned gave back is a row the caller
\* owns, hangs under such a row, or is the date of such a row
ReturnedOnlyOwn ==
  LET mine == OwnWorkouts(db, last.user)
  IN  CASE last.op = "getRecentWorkouts" ->
             \A i \in DOMAIN last.value : last.value[i] \in mine
        [] last.op = "getWorkoutById" ->
             last.value = Undefined \/ last.value \in mine
        [] last.op = "getWorkoutDatesForMonth" ->
             \A i \in DOMAIN last.value :
               \E w \in mine : last.value[i] = parseDateFromDb(w.date, tz)
        [] last.op = "getWorkoutsByDate" ->
             \A i \in DOMAIN last.value :
               \E w \in mine : ViewMadeOf(db, last.value[i], w)

\* C1 (read isolation): whatever was written before, a read that returns to
\* user U2 returns only U2's own workouts, exercises and sets nested under
\* them, and dates of U2's own workouts; nothing of a workout W owned by
\* another user U1 is in it.
C1_ReadIsolation ==
  (last.op \in ReadOps /\ last.threw = "none") => ReturnedOnlyOwn

\* another user owns a workout with an exercise and a set on the day that
\* user U2 has just read, U2 got back only its own workout of that day
C1_Witness ==
  /\ last.op = "getWorkoutsByDate"
  /\ last.threw = "none"
  /\ Len(last.value) = 1
  /\ \E w \in db.workouts :
       /\ w.userId # last.user
       /\ w.date = formatDateForDb(last.input, tz)
       /\ SetsOfWorkout(db, w.id) # {}

\* the helper call a write action has just made, if it made one
HelperCalled == last.calls # <<>>

TheCall == last.calls[1]

\* the workout id a call of updateWorkout or deleteWorkout names
TargetId(call) == call.args.id

\* C2 (write isolation): updateWorkout(W.id, data) and deleteWorkout(W.id)
\* called with the identity of a user who does not own W leave the row W,
\* its workout_exercises rows and its sets rows as they were, and return no
\* workout.
C2_WriteIsolation ==
  [][(/\ last'.op \in {"updateWorkoutAction", "deleteWorkoutAction"}
      /\ last'.calls # <<>>)
     => \A w \in db.workouts :
          (w.id = TargetId(last'.calls[1]) /\ w.userId # last'.calls[1].userId)
          => /\ w \in db'.workouts
             /\ ExercisesOfWorkout(db', w.id) = ExercisesOfWorkout(db, w.id)
             /\ SetsOfWorkout(db', w.id) = SetsOfWorkout(db, w.id)
             /\ last'.calls[1].value = Undefined]_vars

\* updateWorkout has just been called on a workout of another user that
\* has an exercise and a set
C2_Witness ==
  /\ last.op = "updateWorkoutAction"
  /\ HelperCalled
  /\ TheCall.fn = "updateWorkout"
  /\ \E w \in db.workouts :
       /\ w.id = TargetId(TheCall)
       /\ w.userId # TheCall.userId
       /\ TheCall.userId \in Users
       /\ SetsOfWorkout(db, w.id) # {}

\* store d without the workout of that id and the rows under it
WithoutWorkout(d, id) ==
  [d EXCEPT !.workouts = {w \in @ : w.id # id},
            !.workoutExercises = @ \ ExercisesOfWorkout(d, id),
            !.sets = @ \ SetsOfWorkout(d, id)]

\* the result the action gives for the same caller and input on store d
ResultOn(d, op, caller, input) ==
  IF op = "updateWorkoutAction" THEN updateWorkoutAction(d, caller, input)
  ELSE deleteWorkoutAction(d, caller, input)

\* the input passes the schema of updateWorkoutAction / deleteWorkoutAction
\* and names workout w
Targets(input, w) ==
  /\ ~input.id.half
  /\ input.id.n = w.id

\* C3 (not found and unauthorized look the same): when updateWorkoutAction
\* or deleteWorkoutAction is given a validated input whose id is the id of
\* another user's workout, it returns exactly the value it returns, for the
\* same caller and input, on the store in which no workout has that id, and
\* it leaves the store unchanged in both cases.
C3_NotFoundIndistinguishable ==
  [][(last'.op \in {"updateWorkoutAction", "deleteWorkoutAction"})
     => \A w \in db.workouts :
          (Targets(last'.input, w) /\ w.userId # last'.user)
          => LET gone  == WithoutWorkout(db, w.id)
                 other == ResultOn(gone, last'.op, last'.user, last'.input)
             IN  /\ last'.value = other.result
                 /\ db' = db
                 /\ other.db = gone]_vars

\* deleteWorkoutAction has just answered "not found or unauthorized" for
\* the id of a workout that another user owns
C3_Witness ==
  /\ last.op = "deleteWorkoutAction"
  /\ last.value = Failure(MsgNotFound)
  /\ \E w \in db.workouts : Targets(last.input, w) /\ w.userId # last.user

\* the operation that has just run threw Unauthorized out of the function
\* that resolves the identity, having sent nothing to the store
FailedUnauthorized ==
  IF last.op \in WriteActions
  THEN HelperCalled => (TheCall.threw = "Unauthorized" /\ TheCall.stmts = 0)
  ELSE last.threw = "Unauthorized" /\ last.stmts = 0

\* C4 (no identity): when the identity provider resolves no user, each of
\* getWorkoutsByDate, getWorkoutDatesForMonth, getWorkoutById,
\* getRecentWorkouts, createWorkout, updateWorkout, deleteWorkout and the
\* createWorkout action of lib/actions throws Unauthorized before it sends
\* any statement to the store, and the store is unchanged.
C4_UnauthorizedBeforeStorage ==
  [][(last'.op \in IdentityOps /\ last'.user = NoUser)
     => (db' = db /\ FailedUnauthorized')]_vars

\* with workouts in the store, deleteWorkout has just been called with no
\* identity on the id of one of them
C4_Witness ==
  /\ last.op = "deleteWorkoutAction"
  /\ last.user = NoUser
  /\ HelperCalled
  /\ TheCall.threw = "Unauthorized"
  /\ \E w \in db.workouts : w.id = TargetId(TheCall)

\* view v carries every exercise and every set of the joined rows
CarriesAll(v, rows) ==
  \A r \in rows :
    \E j \in DOMAIN v.exercises :
      /\ v.exercises[j].id = r.exercise.id
      /\ r.set # Null =>
           \E k \in DOMAIN v.exercises[j].sets :
             v.exercises[j].sets[k] = SetView(r.set)

\* C5 (no partially cascaded workout is seen): whatever deleteWorkout runs
\* between the round trips of getWorkoutsByDate, every workout W the reader
\* returns comes with all the exercises and sets W had when the reader's
\* first query selected it; a W that is deleted meanwhile is either
\* returned whole or not returned.
C5_NoPartialCascadeSeen ==
  (last.op = "getWorkoutsByDate" /\ last.threw = "none" /\ reader.pc = "done")
  => \A i \in DOMAIN last.value :
       CarriesAll(last.value[i], reader.before[last.value[i].id])

\* C6 (cascade completeness): after deleteWorkout(W.id) has succeeded for
\* W's owner, no workout_exercises row references W.id and no sets row
\* references a workout_exercises row W had; the rows of the other workouts
\* and the exercise catalog are as they were.
C6_CascadeComplete ==
  [][(/\ last'.op = "deleteWorkoutAction"
      /\ last'.value.success)
     => LET W   == last'.value.data
            wes == ExercisesOfWorkout(db, W.id)
        IN  /\ W \in db.workouts
            /\ W.userId = last'.user
            /\ \A we \in db'.workoutExercises : we.workoutId # W.id
            /\ \A st \in db'.sets :
                 \A we \in wes : st.workoutExerciseId # we.id
            /\ db'.workouts = db.workouts \ {W}
            /\ db'.workoutExercises = db.workoutExercises \ wes
            /\ db'.sets = {st \in db.sets :
                             \A we \in wes : st.workoutExerciseId # we.id}
            /\ db'.exercises = db.exercises]_vars

\* a workout that had an exercise and a set has just been deleted and the
\* other workout still has its exercise
C6_Witness ==
  /\ last.op = "deleteWorkoutAction"
  /\ last.value.success
  /\ db.nextWorkoutId = 3
  /\ db.nextWorkoutExerciseId = 3
  /\ db.nextSetId = 2
  /\ db.sets = {}
  /\ Cardinality(db.workouts) = 1
  /\ Cardinality(db.workoutExercises) = 1
  /\ \A we \in db.workoutExercises : \E w \in db.workouts : we.workoutId = w.id

\* z.number().int().positive()
IsPositiveInteger(x) == ~x.half /\ x.n > 0

\* the violations of the schemas, as the claim lists them
ViolatesWorkoutFields(input) ==
  \/ input.name.len = 0
  \/ input.name.len > 100
  \/ input.notes # Undefined /\ input.notes.len > 1000
  \/ input.durationMinutes # Undefined
       /\ ~IsPositiveInteger(input.durationMinutes)
  \/ TextLength(input.date) = 0

ViolatesSchema(op, input) ==
  IF op = "createWorkoutAction" THEN ViolatesWorkoutFields(input)
  ELSE IF op = "updateWorkoutAction"
  THEN ~IsPositiveInteger(input.id) \/ ViolatesWorkoutFields(input)
  ELSE ~IsPositiveInteger(input.id)

\* C7 (validation before storage): when the input of createWorkoutAction,
\* updateWorkoutAction or deleteWorkoutAction violates its schema, the
\* action returns a failure whose message is neither the not-found message
\* nor a generic failure message, it calls no write helper, and the store
\* is unchanged.
C7_ValidationBeforeStorage ==
  [][(last'.op \in WriteActions /\ ViolatesSchema(last'.op, last'.input))
     => /\ last'.value.success = FALSE
        /\ last'.value.error \notin
             {MsgNotFound, MsgCreateFailed, MsgUpdateFailed, MsgDeleteFailed}
        /\ last'.calls = <<>>
        /\ last'.stmts = 0
        /\ db' = db]_vars

\* updateWorkoutAction has just refused a name of 101 characters for a
\* workout the caller owns
C7_Witness ==
  /\ last.op = "updateWorkoutAction"
  /\ last.input.name.len = MaxNameLength + 1
  /\ last.value.success = FALSE
  /\ \E w \in OwnWorkouts(db, last.user) : Targets(last.input, w)

CreateOps == {"createWorkoutAction", "data.createWorkout", "lib.createWorkout"}

\* C8 (the owner is the caller): every row that appears in table workouts
\* was inserted by a create operation and its userId is the identity
\* resolved for the caller of that operation, whatever the input, an input
\* that carries a userId of its own included.
C8_OwnerIsCaller ==
  [][\A w \in db'.workouts :
       (\A x \in db.workouts : x.id # w.id)
       => /\ last'.op \in CreateOps
          /\ last'.user \in Users
          /\ w.userId = last'.user]_vars

\* a create operation whose input names another user as owner has just
\* inserted a row
C8_Witness ==
  /\ last.op \in CreateOps
  /\ "userId" \in DOMAIN last.input
  /\ last.input.userId # last.user
  /\ \E w \in db.workouts : w.id = db.nextWorkoutId - 1 /\ w.userId = last.user

\* C9 (date round trip): in every host offset, for the Date D at local
\* midnight of a calendar day parseDateFromDb(formatDateForDb(D)) has the
\* local year, month and day of D, and for the text s = YYYY-MM-DD of a
\* calendar day formatDateForDb(parseDateFromDb(s)) = s.
C9_DateRoundTrip ==
  /\ last.op = "parseDateFromDb(formatDateForDb)"
     => /\ getFullYear(last.value, tz) = getFullYear(last.input, tz)
        /\ getMonth(last.value, tz) = getMonth(last.input, tz)
        /\ getDate(last.value, tz) = getDate(last.input, tz)
  /\ last.op = "formatDateForDb(parseDateFromDb)"
     => last.value = last.input

\* the Date a call of createWorkout or updateWorkout was given
PassedDate(call) ==
  IF call.fn = "createWorkout" THEN call.args.date ELSE call.args.data.date

\* C10 (the stored date is the local date): in every host offset, the
\* date on the row that createWorkout or updateWorkout has written for the
\* Date d is the text made of d's local year, month and day.
C10_StoredDateIsLocalDate ==
  (/\ last.op \in {"createWorkoutAction", "updateWorkoutAction"}
   /\ HelperCalled
   /\ TheCall.threw = "none"
   /\ TheCall.value # Undefined)
  => TheCall.value.date = formatDateForDb(PassedDate(TheCall), tz)

\* the calendar day a Date falls on in the host's zone
LocalDay(date, off) == Ymd(FieldsAt(date.t, off).y, FieldsAt(date.t, off).m,
                           FieldsAt(date.t, off).d)

\* the row of table workouts that a view object was built from
RowOfView(v) == CHOOSE w \in db.workouts : w.id = v.id

ReturnedByDate == last.op = "getWorkoutsByDate" /\ last.threw = "none"

\* C11 (dates read back): in every host offset, the view object that
\* getWorkoutsByDate returns for a workout stored with calendar date D
\* carries a Date whose local year, month and day are D.
C11_ViewDateIsStoredDay ==
  ReturnedByDate
  => \A i \in DOMAIN last.value :
       LocalDay(last.value[i].date, tz) = RowOfView(last.value[i]).date

\* the stored day the read was asked for, in the host's zone
AskedDay == LocalDay(last.input, tz)

\* C12 (selection by day): getWorkoutsByDate(date) returns the workouts of
\* the caller whose stored date is the local calendar day of date, each
\* once and no other; with an identity it does not throw, and when there is
\* no such workout it returns the empty sequence.
C12_ExactlyTheDay ==
  (last.op = "getWorkoutsByDate" /\ last.user \in Users)
  => /\ last.threw = "none"
     /\ {last.value[i].id : i \in DOMAIN last.value}
          = {w.id : w \in {x \in OwnWorkouts(db, last.user) :
                              x.date = AskedDay}}
     /\ \A i, j \in DOMAIN last.value :
          last.value[i].id = last.value[j].id => i = j

\* east of UTC, the caller has read the day of one of its workouts and got
\* that one back, and not its workout of the other day
C12_Witness ==
  /\ ReturnedByDate
  /\ tz > 0
  /\ Len(last.value) = 1
  /\ \E w \in OwnWorkouts(db, last.user) : w.date # AskedDay

\* ------------------------------------------------------------------------
\* SpecGrouping: one user's workouts of one day with exercises and
\* numbered sets, read back by getWorkoutsByDate
\* ------------------------------------------------------------------------
NextGrouping ==
  \/ CreateWorkoutActionOn({"u1"}, {InputA})
  \/ InsertWorkoutExercise
  \/ InsertNumberedSet
  \/ GetWorkoutsByDateOn({"u1"})
  \/ GetWorkoutsByUserAndDateOn({"u1"})
  \/ Respond

SpecGrouping == InitUtc /\ [][NextGrouping]_vars

\* C13 (same-day order): of two workouts of the caller on the same day,
\* getWorkoutsByDate returns the one created later first; the sequence
\* returned, after the reassembly, is in descending order of creation.
C13_LatestCreatedFirst ==
  ReturnedByDate
  => \A i, j \in DOMAIN last.value :
       i < j => RowOfView(last.value[i]).createdAt
                  > RowOfView(last.value[j]).createdAt

\* two workouts of the caller on the day read have come back
C13_Witness ==
  /\ ReturnedByDate
  /\ Len(last.value) = 2

\* the sets stored under a row of workout_exercises
SetsOfExercise(we) == {st \in db.sets : st.workoutExerciseId = we.id}

\* the positions of the entries of view v made for exercise row we
EntriesFor(v, we) ==
  {j \in DOMAIN v.exercises : v.exercises[j].id = we.exerciseId}

\* C14 (grouping): every workout returned by getWorkoutsByDate has exactly
\* one exercise entry for each of its workout_exercises rows and no other
\* entry, however many sets the row has; a row without sets has its entry,
\* with an empty set sequence, and no set sequence holds a null.
C14_OneEntryPerExercise ==
  ReturnedByDate
  => \A i \in DOMAIN last.value :
       LET v   == last.value[i]
           wes == ExercisesOfWorkout(db, v.id)
       IN  /\ Len(v.exercises) = Cardinality(wes)
           /\ \A we \in wes :
                /\ Cardinality(EntriesFor(v, we)) = 1
                /\ SetsOfExercise(we) = {}
                     => \A j \in EntriesFor(v, we) : v.exercises[j].sets = <<>>
           /\ \A j \in DOMAIN v.exercises :
                \A k \in DOMAIN v.exercises[j].sets :
                  /\ v.exercises[j].sets[k] # Null
                  /\ "setNumber" \in DOMAIN v.exercises[j].sets[k]

\* a workout has come back with two exercise entries, one with two sets
\* and one with none
C14_Witness ==
  /\ ReturnedByDate
  /\ \E i \in DOMAIN last.value :
       /\ Len(last.value[i].exercises) = 2
       /\ \E j, k \in 1 .. 2 :
            /\ Len(last.value[i].exercises[j].sets) = 2
            /\ last.value[i].exercises[k].sets = <<>>

\* how often x occurs in sequence q
Occurrences(q, x) == Cardinality({k \in DOMAIN q : q[k] = x})

\* C15 (sets of an entry): the set sequence of every exercise entry that
\* getWorkoutsByDate returns holds each stored set of its workout_exercises
\* row exactly once and nothing else, in ascending setNumber order, in
\* whatever order the joined rows arrived.
C15_SetsCompleteAndSorted ==
  ReturnedByDate
  => \A i \in DOMAIN last.value :
       \A we \in ExercisesOfWorkout(db, last.value[i].id) :
         \A j \in EntriesFor(last.value[i], we) :
           LET q == last.value[i].exercises[j].sets
           IN  /\ Len(q) = Cardinality(SetsOfExercise(we))
               /\ \A st \in SetsOfExercise(we) :
                    Occurrences(q, SetView(st))
                      = Cardinality({x \in SetsOfExercise(we) :
                                       SetView(x) = SetView(st)})
               /\ \A k, l \in DOMAIN q :
                    k < l => q[k].setNumber <= q[l].setNumber

\* an entry has come back with its first set before its second, the second
\* having been stored before the first
C15_Witness ==
  /\ ReturnedByDate
  /\ \E i \in DOMAIN last.value :
       \E we \in ExercisesOfWorkout(db, last.value[i].id) :
         /\ \E j \in EntriesFor(last.value[i], we) :
              /\ Len(last.value[i].exercises[j].sets) = 2
              /\ last.value[i].exercises[j].sets[1].setNumber = 1
              /\ last.value[i].exercises[j].sets[2].setNumber = 2
         /\ \E a, b \in SetsOfExercise(we) :
              a.setNumber = 2 /\ b.setNumber = 1 /\ a.id < b.id

\* ------------------------------------------------------------------------
\* SpecMonth: workouts on the first and last days of September 2025 and on
\* the days next to them, and the dates read back for August and September
\* ------------------------------------------------------------------------
Day3 == Ymd(2025, 9, 30)

Day4 == Ymd(2025, 10, 1)

MonthInputs ==
  {WorkoutInput(Str(1), day, Undefined, Undefined) :
     day \in {Day1, Day2, Day3, Day4}}

MonthRanges == {<<Day2, Day3>>, <<Day1, Day4>>}

NextMonth ==
  \/ CreateWorkoutActionOn(Users, MonthInputs)
  \/ GetWorkoutDatesForMonthOn(Users)
  \/ GetWorkoutDatesForUserOn(Users, MonthRanges)
  \/ Respond

SpecMonth == Init /\ [][NextMonth]_vars

ReturnedDatesForMonth ==
  last.op = "getWorkoutDatesForMonth" /\ last.threw = "none"

\* the stored dates of the caller's workouts in the month asked for
\* (month counted from zero)
OwnDaysOfMonth ==
  {w.date : w \in {x \in OwnWorkouts(db, last.user) :
                      /\ x.date.y = last.input.year
                      /\ x.date.m = last.input.month + 1}}

\* C16 (dates of a month): getWorkoutDatesForMonth(year, month), month
\* counted from zero, returns one Date for each calendar day of that month
\* on which the caller owns a workout, each day once however many workouts
\* it has, and no other date; the last day of the month before and the
\* first day of the month after never come back.
C16_DatesOfTheMonth ==
  ReturnedDatesForMonth
  => /\ {LocalDay(last.value[i], tz) : i \in DOMAIN last.value}
          = OwnDaysOfMonth
     /\ Len(last.value) = Cardinality(OwnDaysOfMonth)

\* west of UTC, the caller owns workouts on 31 August and 1 September and
\* has read September: one date has come back
C16_Witness ==
  /\ ReturnedDatesForMonth
  /\ tz < 0
  /\ last.input.month = 8
  /\ Len(last.value) = 1
  /\ {w.date : w \in OwnWorkouts(db, last.user)} = {Day1, Day2}

\* C17 (dates in order): the dates returned by getWorkoutDatesForMonth,
\* and those returned by getWorkoutDatesForUser, are in ascending order,
\* whatever workouts are stored and in whatever order they were inserted.
C17_DatesAscending ==
  /\ ReturnedDatesForMonth
     => \A i, j \in DOMAIN last.value :
          i < j => last.value[i].t <= last.value[j].t
  /\ last.op = "getWorkoutDatesForUser"
     => DateAsc(last.value)

\* ------------------------------------------------------------------------
\* SpecUpdate: the data helper updateWorkout on workouts that have
\* exercises and sets
\* ------------------------------------------------------------------------
NextUpdate ==
  \/ CreateWorkoutActionOn({"u1"}, {InputA})
  \/ InsertWorkoutExercise
  \/ InsertSet
  \/ UpdateWorkoutOn({"u1"}, PartialDatas)
  \/ Respond

SpecUpdate == InitUtc /\ [][NextUpdate]_vars

SuppliedFields(data) == {f \in DOMAIN data : data[f] # Undefined}

\* the row w with the supplied fields of data written over it
WithSupplied(w, data) ==
  [f \in DOMAIN w |->
     IF f \in SuppliedFields(data)
     THEN IF f = "date" THEN ToISODatePart(data.date) ELSE data[f]
     ELSE w[f]]

\* C18 (frame of updateWorkout): updateWorkout(id, data) called by the
\* owner of workout id with any subset of name, date, durationMinutes and
\* notes returns the updated row, in which exactly the supplied fields
\* have the supplied values; every other field of the row, every other
\* workout, and all exercises and sets are as before.
C18_UpdateChangesSuppliedOnly ==
  [][\A w \in db.workouts :
       /\ last'.op = "data.updateWorkout"
       /\ last'.input.id = w.id
       /\ last'.user = w.userId
       => /\ last'.threw = "none"
          /\ last'.value = WithSupplied(w, last'.input.data)
          /\ db'.workouts
               = (db.workouts \ {w}) \cup {WithSupplied(w, last'.input.data)}
          /\ db'.workoutExercises = db.workoutExercises
          /\ db'.sets = db.sets]_vars

\* the result a server action returns when its helper throws anything that
\* is not a validation error
OrdinaryFailures ==
  {Failure(MsgCreateFailed), Failure(MsgUpdateFailed),
   Failure(MsgDeleteFailed), Failure(MsgNotFound)}

\* C19 (no identity aborts): createWorkoutAction, updateWorkoutAction and
\* deleteWorkoutAction called with no resolvable identity abort with an
\* authorization failure; they do not return a result, and in particular
\* not the failure result that a storage failure gives.
C19_NoIdentityAborts ==
  last.op \in WriteActions /\ last.user = NoUser
  => /\ last.threw = "Unauthorized"
     /\ last.value \notin OrdinaryFailures

\* C20 (malformed date rejected): a create or update input whose date is a
\* non-empty text that is no YYYY-MM-DD calendar date (text that is no date
\* at all, or a date with a time and a zone offset) is answered with a
\* validation failure: the write helper is not called, nothing is stored,
\* and the failure is not the generic one.
C20_MalformedDateRejected ==
  /\ last.op \in {"createWorkoutAction", "updateWorkoutAction"}
  /\ last.input.date \in {OtherText, IsoText(2025, 8, 31, 22, -5)}
  => /\ last.calls = <<>>
     /\ last.value.success = FALSE
     /\ last.value \notin OrdinaryFailures

\* ------------------------------------------------------------------------
\* SpecFault: the three server actions against a store that can stop
\* answering
\* ------------------------------------------------------------------------
NextFault ==
  \/ CreateWorkoutActionOn(Users, {InputA, UnparseableInput, NamelessInput})
  \/ UpdateWorkoutActionOn(Users, {Num(0)}, {InputB, UnparseableInput})
  \/ DeleteWorkoutActionOn(Users, {Num(0)})
  \/ InsertWorkoutExercise
  \/ InsertSet
  \/ Disconnect
  \/ Reconnect
  \/ Respond

SpecFault == InitUtc /\ [][NextFault]_vars

GenericMessage(op) ==
  IF op = "createWorkoutAction" THEN MsgCreateFailed
  ELSE IF op = "updateWorkoutAction" THEN MsgUpdateFailed
  ELSE MsgDeleteFailed

\* the helper call of the action just taken failed at the store
StorageFailed(l) ==
  /\ l.op \in WriteActions
  /\ l.calls # <<>>
  /\ l.calls[1].threw = "StorageError"

\* C21 (storage failure): when the statement of createWorkoutAction,
\* updateWorkoutAction or deleteWorkoutAction fails at the store, the action
\* has called its helper once and sent one statement, returns the failure
\* result with the generic message of that action, revalidates nothing,
\* and the store is as it was before the call.
C21_StorageFailureIsGeneric ==
  [][StorageFailed(last')
     => /\ Len(last'.calls) = 1
        /\ last'.stmts = 1
        /\ last'.threw = "none"
        /\ last'.value = Failure(GenericMessage(last'.op))
        /\ last'.revalidated = <<>>
        /\ db' = db]_vars

\* the store was down when the owner asked to delete a workout that has
\* exercises; the workout is still there
C21_Witness ==
  /\ StorageFailed(last)
  /\ last.op = "deleteWorkoutAction"
  /\ \E w \in OwnWorkouts(db, last.user) :
       /\ Targets(last.input, w)
       /\ ExercisesOfWorkout(db, w.id) # {}

Keeps(d, w) ==
  \E x \in d.workouts : x.id = w.id /\ x.userId = w.userId /\ x.date = w.date

\* C23 (read your writes): step by step, (1) a createWorkoutAction with
\* date string D that returns success to user U has put the returned
\* workout in the store with owner U and date D, in every host timezone;
\* (2) a stored workout keeps its owner and date unless its owner deletes
\* or updates it; (3) a getWorkoutsByDate by U returns every workout U
\* owns whose date is the local calendar date asked for; (4) a
\* deleteWorkoutAction that returns success has removed the workout, ids
\* are never given out twice, and reads return stored rows only. Together:
\* a created workout is in every later read of its day by its owner until
\* the owner deletes or changes it, and a deleted one is in no later read.
C23_ReadYourWrites ==
  [][/\ (last'.op = "createWorkoutAction" /\ last'.value.success)
        => /\ last'.value.data \in db'.workouts \ db.workouts
           /\ last'.value.data.userId = last'.user
           /\ last'.value.data.date = last'.input.date
     /\ \A w \in db.workouts :
          ~Keeps(db', w)
          => /\ last'.op \in {"updateWorkoutAction", "deleteWorkoutAction"}
             /\ last'.user = w.userId
             /\ Targets(last'.input, w)
     /\ (last'.op = "getWorkoutsByDate" /\ last'.user \in Users)
        => \A w \in OwnWorkouts(db', last'.user) :
             w.date = LocalDay(last'.input, tz)
             => \E i \in DOMAIN last'.value : last'.value[i].id = w.id
     /\ (last'.op = "deleteWorkoutAction" /\ last'.value.success)
        => \A w \in db'.workouts : ~Targets(last'.input, w)
     /\ db'.nextWorkoutId >= db.nextWorkoutId
     /\ \A w \in db'.workouts : w.id < db'.nextWorkoutId
     /\ (last'.op \in ReadOps /\ last'.threw = "none")
        => ReturnedOnlyOwn']_vars

\* west of UTC a user reads the day of a workout created with that date
\* string and gets it, while an older workout of theirs is gone
C23_Witness ==
  /\ ReturnedByDate
  /\ tz < 0
  /\ AskedDay = Day1
  /\ Len(last.value) = 1
  /\ last.value[1].id = 2
  /\ OwnWorkouts(db, last.user) = {RowOfView(last.value[1])}

\* rows a and b of workout_exercises name the same workout and exercise
SamePair(a, b) == a.workoutId = b.workoutId /\ a.exerciseId = b.exerciseId

\* C24 (one row per workout and exercise): no two rows of
\* workout_exercises share (workoutId, exerciseId); an insert whose pair a
\* stored row already has fails and leaves the store unchanged; an insert
\* under an existing workout of an exercise that only other workouts have
\* is accepted and adds its row.
C24_UniqueWorkoutExercise ==
  [][/\ \A a, b \in db'.workoutExercises : SamePair(a, b) => a = b
     /\ last'.op = "insertWorkoutExercise"
        => IF \E we \in db.workoutExercises : SamePair(we, last'.input)
           THEN last'.threw = "ConstraintViolation" /\ db' = db
           ELSE (\E w \in db.workouts : w.id = last'.input.workoutId)
                => /\ last'.threw = "none"
                   /\ db'.workoutExercises
                        = db.workoutExercises \cup {last'.value}
                   /\ SamePair(last'.value, last'.input)]_vars

\* a second row for a pair was refused while another workout has the same
\* exercise
C24_Witness ==
  /\ last.op = "insertWorkoutExercise"
  /\ last.threw = "ConstraintViolation"
  /\ \E a, b \in db.workoutExercises :
       /\ SamePair(a, last.input)
       /\ b.exerciseId = a.exerciseId
       /\ b.workoutId # a.workoutId

\* ------------------------------------------------------------------------
\* SpecSchema: rows written to workout_exercises and sets at the edges of
\* what the constraints of the tables admit, exercises deleted from the
\* catalog, and workouts updated and deleted meanwhile
\* ------------------------------------------------------------------------
NextSchema ==
  \/ CreateWorkoutActionOn({"u1"}, {InputA})
  \/ InsertWorkoutExercise
  \/ InsertEdgeSet
  \/ UpdateSet
  \/ DeleteExercise
  \/ UpdateWorkoutActionOn({"u1"}, {}, {InputB})
  \/ DeleteWorkoutActionOn({"u1"}, {})
  \/ Respond

SpecSchema == InitUtc /\ [][NextSchema]_vars

\* the four checks of table sets on a row or on the values of an insert
SetWithinChecks(x) ==
  /\ x.reps > 0
  /\ x.setNumber > 0
  /\ (x.weight = Null \/ x.weight.n >= 0)
  /\ (x.rpe = Null \/ (x.rpe.n >= 1 /\ x.rpe.n <= 10))

\* the stored set with the fields of an update written over it
SetAfter(x, values) ==
  [f \in DOMAIN x |-> IF f \in DOMAIN values THEN values[f] ELSE x[f]]

\* C25 (checks of sets): every stored set has reps > 0, setNumber > 0,
\* weight null or >= 0 and rpe null or within 1..10; an insert, or an update
\* of a stored set, that would give reps = 0, setNumber = 0, a negative
\* weight or rpe = 11 is refused and changes nothing; one within the checks
\* (rpe null, weight null, also with isBodyweight true) is accepted and
\* stored as given.
C25_SetChecks ==
  [][/\ \A x \in db'.sets : SetWithinChecks(x)
     /\ (last'.op = "insertSet"
         /\ \E we \in db.workoutExercises :
              we.id = last'.input.workoutExerciseId)
        => IF SetWithinChecks(last'.input)
           THEN /\ last'.threw = "none"
                /\ db'.sets = db.sets \cup {last'.value}
                /\ \A f \in DOMAIN last'.input :
                     last'.value[f] = last'.input[f]
           ELSE last'.threw = "ConstraintViolation" /\ db' = db
     /\ last'.op = "updateSet"
        => \A x \in db.sets :
             x.id = last'.input.id
             => IF SetWithinChecks(SetAfter(x, last'.input.values))
                THEN /\ last'.threw = "none"
                     /\ db'.sets = (db.sets \ {x})
                          \cup {SetAfter(x, last'.input.values)}
                ELSE last'.threw = "ConstraintViolation" /\ db' = db]_vars

\* a bodyweight set with weight null is stored, and an update of it to
\* rpe 11 has just been refused
C25_Witness ==
  /\ last.op = "updateSet"
  /\ last.threw = "ConstraintViolation"
  /\ last.input.values = [rpe |-> Num(11)]
  /\ \E x \in db.sets :
       /\ x.id = last.input.id
       /\ x.isBodyweight
       /\ x.weight = Null

\* C26 (catalog integrity): every row of workout_exercises references a
\* stored workout and a stored exercise; deleting an exercise that a row
\* of workout_exercises references is refused and changes nothing, one
\* that nothing references is removed; no createWorkoutAction,
\* updateWorkoutAction or deleteWorkoutAction removes or modifies a row of
\* exercises.
C26_CatalogIntegrity ==
  [][/\ \A we \in db'.workoutExercises :
          /\ \E w \in db'.workouts : w.id = we.workoutId
          /\ \E e \in db'.exercises : e.id = we.exerciseId
     /\ last'.op = "deleteExercise"
        => IF \E we \in db.workoutExercises :
                we.exerciseId = last'.input.id
           THEN last'.threw = "ConstraintViolation" /\ db' = db
           ELSE /\ last'.threw = "none"
                /\ db'.exercises
                     = {e \in db.exercises : e.id # last'.input.id}
     /\ last'.op \in WriteActions => db'.exercises = db.exercises]_vars

\* the delete of an exercise that a workout uses has just been refused
C26_Witness ==
  /\ last.op = "deleteExercise"
  /\ last.threw = "ConstraintViolation"
  /\ \E we \in db.workoutExercises :
       /\ we.exerciseId = last.input.id
       /\ \E e \in db.exercises : e.id = we.exerciseId

\* C27 (stored workouts are valid): whatever write entry point stored it
\* (createWorkoutAction, updateWorkoutAction, the server action
\* createWorkout(date, name)), a stored workout has a name of at most 100
\* characters, notes of at most 1000 characters, a durationMinutes that is
\* absent or a positive integer, and a date that is a calendar date.
C27_StoredWorkoutsValid ==
  \A w \in db.workouts :
    /\ w.name = Null \/ w.name.len <= 100
    /\ w.notes = Null \/ w.notes.len <= 1000
    /\ w.durationMinutes = Null
       \/ (~w.durationMinutes.half /\ w.durationMinutes.n > 0)
    /\ w.date.k = "ymd"
    /\ w.date.m \in 1 .. 12
    /\ w.date.d \in 1 .. DaysInMonth(w.date.y, w.date.m)

\* sequence views of the manual grouping and sequence result of the
\* relational query hold the same workouts, exercises and sets in the same
\* order
SameTree(views, result) ==
  /\ Len(views) = Len(result)
  /\ \A i \in DOMAIN views :
       /\ views[i].id = result[i].id
       /\ Len(views[i].exercises) = Len(result[i].workoutExercises)
       /\ \A j \in DOMAIN views[i].exercises :
            /\ views[i].exercises[j].id
                 = result[i].workoutExercises[j].exercise.id
            /\ Len(views[i].exercises[j].sets)
                 = Len(result[i].workoutExercises[j].sets)
            /\ \A k \in DOMAIN views[i].exercises[j].sets :
                 views[i].exercises[j].sets[k]
                   = SetView(result[i].workoutExercises[j].sets[k])

\* C28 (the two read paths agree): whatever getWorkoutsByDate returns for a
\* user and a day, getWorkoutsByUserAndDate can return for the same user
\* and day the same workouts in the same order, each with the same
\* exercises in the same order (ascending order field) and the same sets
\* in the same order.
C28_ReadPathsAgree ==
  ReturnedByDate
  => \E result \in getWorkoutsByUserAndDate(db, last.user,
                                             formatDateForDb(last.input, tz)) :
       SameTree(last.value, result)

\* ------------------------------------------------------------------------
\* create-workout-form.tsx, edit-workout-form.tsx: the two client forms
\* ------------------------------------------------------------------------
\* searchParams.get("date") || new Date().toISOString().split("T")[0]
defaultDate(param, now) ==
  IF param # Null /\ param # EmptyText THEN param ELSE ToISODatePart(now)

\* the date query parameter of the page, absent or a date
DateParams == {Null, Day1, Day2}

\* the clock of the browser when the form renders: 31 August 2025 at
\* 03:00, 12:00 and 22:00 UTC
Instants == {DateAt(DaysFromCivil(2025, 8, 31) * 24 + h) : h \in {3, 12, 22}}

\* /dashboard/workout/new renders CreateWorkoutForm
OpenCreateForm ==
  /\ form.kind = "none"
  /\ \E param \in DateParams, now \in Instants :
       form' = FormOf("create", "u1", 0, param, now, defaultDate(param, now))
  /\ UNCHANGED <<db, tz, last, reader>>

\* /dashboard/workout/[workoutId] renders EditWorkoutForm with the workout
\* getWorkoutById found
OpenEditForm ==
  /\ form.kind = "none"
  /\ \E w \in OwnWorkouts(db, "u1") :
       form' = FormOf("edit", "u1", w.id, Null, DateAt(0), w.date)
  /\ UNCHANGED <<db, tz, last, reader>>

\* the controls of the form are enabled
ControlsEnabled(f) ==
  f.kind # "none" /\ ~f.isPending /\ ~f.isDeleting /\ ~f.navigated

\* the server action call the handler awaits, applied to store d
AwaitedCall(d, f) ==
  IF f.call = "delete" THEN deleteWorkoutAction(d, f.user, f.data)
  ELSE IF f.kind = "edit" THEN updateWorkoutAction(d, f.user, f.data)
  ELSE createWorkoutAction(d, f.user, f.data)

\* handleSubmit up to its await
HandleSubmit ==
  /\ ControlsEnabled(form)
  /\ \E name \in {Str(0), Str(1)} :
       LET fields == WorkoutInput(name, form.defaultDate, Undefined, Undefined)
           f == [form EXCEPT !.isPending = TRUE, !.error = Null,
                             !.call = "submit", !.awaiting = "request",
                             !.data = IF form.kind = "edit"
                                      THEN WithId(Num(form.workoutId), fields)
                                      ELSE fields]
       IN  /\ WithinBounds(AwaitedCall(db, f).db)
           /\ form' = f
  /\ UNCHANGED <<db, tz, last, reader>>

\* handleDelete up to its await
HandleDelete ==
  /\ ControlsEnabled(form)
  /\ form.kind = "edit"
  /\ form' = [form EXCEPT !.isDeleting = TRUE, !.error = Null,
                          !.call = "delete", !.awaiting = "request",
                          !.data = [id |-> Num(form.workoutId)]]
  /\ UNCHANGED <<db, tz, last, reader>>

\* the request arrives and the server action runs
ServerRuns ==
  /\ form.awaiting = "request"
  /\ db' = AwaitedCall(db, form).db
  /\ form' = [form EXCEPT !.awaiting = "response",
                          !.response = AwaitedCall(db, form).result]
  /\ UNCHANGED <<tz, last, reader>>

\* the awaited call resolves with the result of the action; the handler
\* runs to its end
CallResolves ==
  /\ form.awaiting = "response"
  /\ form' = IF form.response.success
             THEN [form EXCEPT !.awaiting = "none", !.navigated = TRUE]
             ELSE [form EXCEPT !.awaiting = "none",
                               !.error = [k    |-> "message",
                                          text |-> form.response.error],
                               !.isPending = FALSE, !.isDeleting = FALSE]
  /\ UNCHANGED <<db, tz, last, reader>>

\* the awaited call rejects (the request or the response is lost): the
\* handler ends at its await
CallRejects ==
  /\ form.awaiting # "none"
  /\ form' = [form EXCEPT !.awaiting = "none"]
  /\ UNCHANGED <<db, tz, last, reader>>

\* router.push("/dashboard") of the handler or of the Cancel button
\* unmounts the form
LeaveForm ==
  /\ form.navigated \/ ControlsEnabled(form)
  /\ form' = Closed
  /\ UNCHANGED <<db, tz, last, reader>>

NextForm ==
  \/ OpenCreateForm
  \/ OpenEditForm
  \/ HandleSubmit
  \/ HandleDelete
  \/ ServerRuns
  \/ CallResolves
  \/ CallRejects
  \/ LeaveForm

SpecForm == Init /\ [][NextForm]_vars

\* an awaited call settles some time: it resolves once the response is
\* there, and rejects otherwise
SpecFormLive ==
  InitUtc /\ [][NextForm]_vars /\ WF_vars(CallResolves \/ CallRejects)

\* C29 (default date of the create form): opened without a date parameter
\* the form offers today's calendar date in the local timezone of the
\* user, at every time of day and offset; opened with a date parameter it
\* offers that date unchanged.
C29_DefaultDateIsLocalToday ==
  form.kind = "create"
  => form.defaultDate = IF form.param = Null
                        THEN LocalDay(form.now, tz) ELSE form.param

\* a submit or a delete of the form is under way
FormPending == form.isPending \/ form.isDeleting

\* the form has navigated to /dashboard, or shows an error with its
\* controls enabled again
FormResolved ==
  \/ form.navigated
  \/ (~form.isPending /\ ~form.isDeleting /\ form.error # Null)

\* C30 (submission resolves): after a submit of CreateWorkoutForm or
\* EditWorkoutForm, or a confirmed delete, the form eventually navigates
\* to /dashboard or leaves the pending state with an error shown and its
\* controls enabled, whether the server action call resolves with success,
\* resolves with a failure, or rejects; and while a submission is pending
\* no other submission starts.
C30_SubmissionResolves ==
  /\ FormPending ~> FormResolved
  /\ [][form.awaiting # "none"
        => (form'.awaiting # "request" /\ form'.data = form.data)]_vars

====
